---------------------------- MODULE Spec2Model ----------------------------
(***************************************************************************)
(* A model of danswer's retrieval-and-ranking pipeline                     *)
(* (backend/danswer/search/search_runner.py) and of its document-set       *)
(* bookkeeping (backend/danswer/db/document_set.py).                       *)
(*                                                                         *)
(* Six specifications share this module:                                   *)
(*   SpecMerge     combine_retrieval_results as a pure function            *)
(*   SpecRerank    rerank_chunks / semantic_reranking on one chunk list    *)
(*   SpecBoost     apply_boost on one chunk list                           *)
(*   SpecDispatch  one call of doc_index_retrieval                         *)
(*   Spec          one run of full_chunk_search_generator                  *)
(*   SpecDocSet    the document-set bookkeeping of                         *)
(*                 backend/danswer/db/document_set.py                      *)
(*                                                                         *)
(* Conventions.  An optional score is a tuple: <<>> is Python's None and   *)
(* <<v>> is the float v.  Floats are integers; scores written by the       *)
(* reranker are kept as the numerator of the normalised value over a       *)
(* positive denominator common to one call (see NormalizedNum), so that    *)
(* their order and their equalities are those of the floats.  A chunk is   *)
(* a record; the field content also tells two chunks of one key apart.     *)
(*                                                                         *)
(* run_functions_in_parallel and run_functions_tuples_in_parallel          *)
(* (danswer.utils.threadpool_concurrency) are modelled from their          *)
(* documented behaviour: results come back in submission order, and a      *)
(* post-processing task that raises leaves no result (ParallelResult), a   *)
(* sub-retrieval of the fan-out that raises leaves no list                 *)
(* (ParallelSearchResults).  Not modelled: a rephraser that raises, and in *)
(* Spec an index that raises on the single retrieval made without          *)
(* expansion (the error leaves the generator before its first yield;       *)
(* SpecDispatch has the raising index call).                               *)
(***************************************************************************)
EXTENDS Integers, Sequences, FiniteSets, TLC

VARIABLES
    \* ---- combine_retrieval_results (SpecMerge)
    m_pc,        \* "idle" | "init" | "merged" | "remerged" | "permuted"
    m_sets,      \* chunk_sets: the list of chunk lists passed to the merger
    m_out,       \* the list returned for m_sets
    m_sets2,     \* the argument of the second call made on the same chunks
    m_out2,      \* the list returned by that second call
    \* ---- rerank_chunks (SpecRerank)
    r_pc,        \* "idle" | "init" | "returned" | "raised"
    r_in,        \* chunks_to_rerank as passed in (before the call)
    r_num,       \* query.num_rerank
    r_sim,       \* what CrossEncoderEnsembleModel.predict returned
    r_chunks,    \* chunks_to_rerank after the call (objects mutated in place)
    r_out,       \* the list rerank_chunks returned
    r_ranked,    \* what semantic_reranking returned to rerank_chunks
    \* ---- full_chunk_search_generator (Spec)
    pc,                       \* position of the generator
    query,                    \* the SearchQuery
    multilingual_query_expansion,
    retrieved_chunks,         \* list returned by retrieve_chunks (objects shared)
    chunks_yielded,           \* the local flag of the generator
    rerank_task,              \* "none" | "pending" | "done" | "failed"
    filter_task,              \* "none" | "pending" | "done" | "failed"
    filter_input,             \* the slice handed to the filter task at dispatch
    post_processing_results,  \* results of run_functions_in_parallel, by task
    yields,                   \* what the generator has yielded so far, in order
    index_calls,              \* log: the calls made on the DocumentIndex
    rephraser_calls,          \* log: number of rephrase_query calls
    rerank_calls,             \* log: number of rerank_chunks invocations
    index_results,            \* log: per index call, <<>> (it failed) or <<list>>
    query_rephrases,          \* log: the list rephrase_query returned
    dispatched_chunks,        \* log: retrieved_chunks when the tasks were submitted
    predict_outcome,          \* log: <<>> or <<what the cross-encoder did>>
    judge_call,               \* log: <<>> or <<contents read, what the judge did>>
    retrieval_metrics_callback, \* TRUE when the caller supplied the callback
    retrieval_metrics,        \* log: the records the callback was called with
    \* ---- apply_boost (SpecBoost)
    b_pc,        \* "idle" | "init" | "returned" | "raised"
    b_in,        \* chunks as passed in
    b_cutoff,    \* norm_cutoff
    b_min,       \* norm_min
    b_max,       \* norm_max
    b_out,       \* the list apply_boost returned
    \* ---- doc_index_retrieval (SpecDispatch)
    d_pc,        \* "idle" | "init" | "returned" | "raised"
    d_query,     \* the SearchQuery
    d_alpha,     \* hybrid_alpha
    d_calls,     \* log: the calls made on the DocumentIndex, with arguments
    d_out,       \* the list doc_index_retrieval returned
    \* ---- document-set bookkeeping (SpecDocSet)
    ds_pc,                      \* "idle" | "committed" | "pending"
    document_set_table,         \* committed rows of DocumentSet, by id
    document_set__cc_pair_table, \* committed rows of the relationship table
    ds_next_id,                 \* the next id the DocumentSet sequence gives
    ds_session,                 \* <<>> or <<uncommitted state of the session>>
    ds_call,                    \* log: the last call, and what it found
    ds_accepted                 \* log: requests accepted since the last sync

merge_vars == <<m_pc, m_sets, m_out, m_sets2, m_out2>>
rerank_vars == <<r_pc, r_in, r_num, r_sim, r_chunks, r_out, r_ranked>>
search_vars == <<pc, query, multilingual_query_expansion, retrieved_chunks,
                 chunks_yielded, rerank_task, filter_task, filter_input,
                 post_processing_results, yields, index_calls,
                 rephraser_calls, rerank_calls, index_results,
                 query_rephrases, dispatched_chunks, predict_outcome,
                 judge_call, retrieval_metrics_callback, retrieval_metrics>>
boost_vars == <<b_pc, b_in, b_cutoff, b_min, b_max, b_out>>
dispatch_vars == <<d_pc, d_query, d_alpha, d_calls, d_out>>
docset_vars == <<ds_pc, document_set_table, document_set__cc_pair_table,
                 ds_next_id, ds_session, ds_call, ds_accepted>>
vars == <<merge_vars, rerank_vars, search_vars, boost_vars, dispatch_vars,
          docset_vars>>

-----------------------------------------------------------------------------
(* Scores, chunks, sequences                                               *)

None == <<>>

Some(v) == <<v>>

\* Python's `chunk.score or 0`: None and 0.0 are both falsy.
ScoreOr0(chunk) == IF chunk.score = None THEN 0 ELSE chunk.score[1]

\* key = (chunk.document_id, chunk.chunk_id)
Key(chunk) == <<chunk.document_id, chunk.chunk_id>>

\* InferenceChunk.unique_id, derived from the key
unique_id(chunk) == <<chunk.document_id, chunk.chunk_id>>

Range(s) == {s[i] : i \in 1..Len(s)}

\* s[:n] and s[n:] for n >= 0
Take(s, n) == SubSeq(s, 1, IF n < Len(s) THEN n ELSE Len(s))

Drop(s, n) == SubSeq(s, (IF n < Len(s) THEN n ELSE Len(s)) + 1, Len(s))

RECURSIVE Flatten(_)
\* [chunk for chunk_set in chunk_sets for chunk in chunk_set]
Flatten(ss) == IF ss = <<>> THEN <<>> ELSE Head(ss) \o Flatten(Tail(ss))

\* All sequences over S of length at most n
SeqsUpTo(S, n) == UNION {[1..k -> S] : k \in 0..n}

-----------------------------------------------------------------------------
(* list.sort(key=lambda x: x[0], reverse=True) on a list of tuples whose    *)
(* first component is the sort key: Python's sort is stable, and with       *)
(* reverse=True equal keys still keep their original relative order.        *)

RECURSIVE InsertDescUnstable(_, _)
InsertDescUnstable(s, p) ==
    IF s = <<>> THEN <<p>>
    ELSE IF Head(s)[1] > p[1] THEN <<Head(s)>> \o InsertDescUnstable(Tail(s), p)
    ELSE <<p>> \o s

RECURSIVE InsertDesc(_, _)
InsertDesc(s, p) ==
    IF s = <<>> THEN <<p>>
    ELSE IF Head(s)[1] >= p[1] THEN <<Head(s)>> \o InsertDesc(Tail(s), p)
    ELSE <<p>> \o s

RECURSIVE SortDescByFirst(_)
SortDescByFirst(s) ==
    IF s = <<>> THEN <<>>
    ELSE InsertDesc(SortDescByFirst(SubSeq(s, 1, Len(s) - 1)), s[Len(s)])

RECURSIVE SortDescByFirstUnstable(_)
SortDescByFirstUnstable(s) ==
    IF s = <<>> THEN <<>>
    ELSE InsertDescUnstable(SortDescByFirstUnstable(SubSeq(s, 1, Len(s) - 1)),
                            s[Len(s)])

-----------------------------------------------------------------------------
(* combine_retrieval_results                                               *)

\* Position of key k in the dict unique_chunks (insertion ordered), 0 if absent
DictIndex(unique_chunks, k) ==
    IF \E i \in 1..Len(unique_chunks) : Key(unique_chunks[i]) = k
    THEN CHOOSE i \in 1..Len(unique_chunks) : Key(unique_chunks[i]) = k
    ELSE 0

\* A faulty variant: a later chunk of equal score replaces the stored one.
DictStepLastWins(unique_chunks, chunk) ==
    LET i == DictIndex(unique_chunks, Key(chunk)) IN
    IF i = 0 THEN Append(unique_chunks, chunk)
    ELSE IF ScoreOr0(unique_chunks[i]) <= ScoreOr0(chunk)
         THEN [unique_chunks EXCEPT ![i] = chunk]
         ELSE unique_chunks

\* One iteration of `for chunk in all_chunks`: a new key is appended to the
\* dict; a stored chunk is replaced (keeping its dict position) only by a
\* chunk of strictly greater `score or 0`.
DictStep(unique_chunks, chunk) ==
    LET i == DictIndex(unique_chunks, Key(chunk)) IN
    IF i = 0 THEN Append(unique_chunks, chunk)
    ELSE IF ScoreOr0(unique_chunks[i]) < ScoreOr0(chunk)
         THEN [unique_chunks EXCEPT ![i] = chunk]
         ELSE unique_chunks

RECURSIVE DictFold(_, _)
DictFold(unique_chunks, all_chunks) ==
    IF all_chunks = <<>> THEN unique_chunks
    ELSE DictFold(DictStep(unique_chunks, Head(all_chunks)), Tail(all_chunks))

\* A faulty variant: the values are returned in dict order, without the sort.
SortedChunksUnsorted(unique_values) == unique_values

\* A faulty variant: the sort is not stable.
SortedChunksUnstable(unique_values) ==
    LET keyed == [i \in 1..Len(unique_values) |->
                     <<ScoreOr0(unique_values[i]), unique_values[i]>>]
        srt == SortDescByFirstUnstable(keyed)
    IN [i \in 1..Len(srt) |-> srt[i][2]]

\* sorted(unique_chunks.values(), key=lambda x: x.score or 0, reverse=True)
SortedChunks(unique_values) ==
    LET keyed == [i \in 1..Len(unique_values) |->
                     <<ScoreOr0(unique_values[i]), unique_values[i]>>]
        srt == SortDescByFirst(keyed)
    IN [i \in 1..Len(srt) |-> srt[i][2]]

combine_retrieval_results(chunk_sets) ==
    SortedChunks(DictFold(<<>>, Flatten(chunk_sets)))


-----------------------------------------------------------------------------
(* semantic_reranking and rerank_chunks                                    *)
(*                                                                         *)
(* The cross-encoder ensemble is an external model: what predict returns   *)
(* is an input, a record [raised, scores] where scores[m][i] is the score  *)
(* model m gives passage i.  With M models, boost multipliers kept as      *)
(* halves and D = model_max - model_min > 0, the float                     *)
(*    normalized[i] = (shifted[i]*boost[i]*recency[i] + cross_min           *)
(*                       - model_min) / D                                  *)
(* equals NormalizedNum(...)[i] / (2*M*D): the numerators are compared and *)
(* stored, the denominator being the same for all chunks of one call.      *)

CROSS_ENCODER_RANGE_MIN == -2

CROSS_ENCODER_RANGE_MAX == 2

\* translate_boost_count_to_multiplier, in halves: non-decreasing in the
\* boost count, 1.0 at 0, bounded on both sides
translate_boost_count_to_multiplier_x2(boost) ==
    IF boost < 0 THEN 1 ELSE IF boost = 0 THEN 2 ELSE 3

RECURSIVE SumOver(_, _)
\* sum of f[i] for i in 1..n
SumOver(f, n) == IF n = 0 THEN 0 ELSE f[n] + SumOver(f, n - 1)

MinOf(S) == CHOOSE x \in S : \A y \in S : x <= y

\* numpy.min(sim_scores): the least score of any model for any passage
CrossModelsMin(sim_scores) ==
    MinOf({sim_scores[m][i] : m \in 1..Len(sim_scores),
                              i \in 1..Len(sim_scores[1])})

\* raw_sim_scores[i] * M : sum(sim_scores)[i]
RawSimNum(sim_scores, i) ==
    SumOver([m \in 1..Len(sim_scores) |-> sim_scores[m][i]], Len(sim_scores))

\* shifted_sim_scores[i] * M : sum of (enc_n_scores - cross_models_min)[i]
ShiftedSimNum(sim_scores, i) ==
    SumOver([m \in 1..Len(sim_scores) |->
                sim_scores[m][i] - CrossModelsMin(sim_scores)],
            Len(sim_scores))

\* normalized_b_s_scores[i] * 2 * M * (model_max - model_min)
NormalizedNum(chunks, sim_scores, i) ==
    ShiftedSimNum(sim_scores, i)
        * translate_boost_count_to_multiplier_x2(chunks[i].boost)
        * chunks[i].recency_bias
    + 2 * Len(sim_scores)
        * (CrossModelsMin(sim_scores) - CROSS_ENCODER_RANGE_MIN)

\* The call raises: predict failed; no model (sum/len divides by zero); no
\* passage (numpy.min of an empty array, and zip(*[]) does not unpack).
semantic_reranking_raises(chunks, predicted) ==
    \/ predicted.raised
    \/ Len(predicted.scores) = 0
    \/ Len(chunks) = 0

\* A faulty variant: the tuples are sorted by the raw averaged score.
ScoredResultsByRaw(chunks, sim_scores) ==
    LET by_raw == SortDescByFirst([i \in 1..Len(chunks) |->
            <<RawSimNum(sim_scores, i), NormalizedNum(chunks, sim_scores, i),
              chunks[i], i>>])
    IN [k \in 1..Len(by_raw) |->
           <<by_raw[k][2], by_raw[k][1], by_raw[k][3], by_raw[k][4]>>]

\* scored_results after .sort(key=lambda x: x[0], reverse=True):
\* tuples (normalized, raw, chunk, orig_index)
ScoredResults(chunks, sim_scores) ==
    SortDescByFirst([i \in 1..Len(chunks) |->
        <<NormalizedNum(chunks, sim_scores, i), RawSimNum(sim_scores, i),
          chunks[i], i>>])

\* The returned (ranked_chunks, ranked_indices); each ranked chunk has had
\* its score set to ranked_sim_scores[ind].
semantic_reranking(chunks, sim_scores) ==
    LET scored_results == ScoredResults(chunks, sim_scores) IN
    [ranked_chunks |->
        [k \in 1..Len(scored_results) |->
            [scored_results[k][3] EXCEPT !.score = Some(scored_results[k][1])]],
     ranked_indices |->
        [k \in 1..Len(scored_results) |-> scored_results[k][4]],
     ranked_raw_scores |->
        [k \in 1..Len(scored_results) |-> scored_results[k][2]]]

\* rerank_chunks raises exactly when semantic_reranking does, on the slice
rerank_chunks_raises(num_rerank, chunks_to_rerank, predicted) ==
    semantic_reranking_raises(Take(chunks_to_rerank, num_rerank), predicted)

\* lower_chunk.score = None for every chunk of chunks_to_rerank[num_rerank:]
ClearScores(lower_chunks) ==
    [i \in 1..Len(lower_chunks) |-> [lower_chunks[i] EXCEPT !.score = None]]

\* A faulty variant: the tail keeps its retrieval scores.
rerank_chunks_keeps_scores(num_rerank, chunks_to_rerank, sim_scores) ==
    semantic_reranking(Take(chunks_to_rerank, num_rerank), sim_scores).ranked_chunks
        \o Drop(chunks_to_rerank, num_rerank)

\* A faulty variant: the tail starts one position late (an off-by-one in the slice).
rerank_chunks_drops_one(num_rerank, chunks_to_rerank, sim_scores) ==
    semantic_reranking(Take(chunks_to_rerank, num_rerank), sim_scores).ranked_chunks
        \o ClearScores(Drop(chunks_to_rerank, num_rerank + 1))

\* The list rerank_chunks returns: ranked_chunks extended by lower_chunks
rerank_chunks(num_rerank, chunks_to_rerank, sim_scores) ==
    semantic_reranking(Take(chunks_to_rerank, num_rerank), sim_scores).ranked_chunks
        \o ClearScores(Drop(chunks_to_rerank, num_rerank))

\* A faulty variant: the chunks beyond num_rerank lose their content instead
\* of their score.
rerank_chunks_in_place_clears_content(num_rerank, chunks_to_rerank, sim_scores) ==
    LET sr == semantic_reranking(Take(chunks_to_rerank, num_rerank), sim_scores)
    IN [i \in 1..Len(chunks_to_rerank) |->
           IF i <= Len(sr.ranked_indices)
           THEN sr.ranked_chunks[CHOOSE k \in 1..Len(sr.ranked_indices) :
                                     sr.ranked_indices[k] = i]
           ELSE [chunks_to_rerank[i] EXCEPT !.content = None]]

\* chunks_to_rerank after the call: the objects are mutated in place, so the
\* caller's list keeps its order and each object carries its new score.
rerank_chunks_in_place(num_rerank, chunks_to_rerank, sim_scores) ==
    LET sr == semantic_reranking(Take(chunks_to_rerank, num_rerank), sim_scores)
    IN [i \in 1..Len(chunks_to_rerank) |->
           IF i <= Len(sr.ranked_indices)
           THEN sr.ranked_chunks[CHOOSE k \in 1..Len(sr.ranked_indices) :
                                     sr.ranked_indices[k] = i]
           ELSE [chunks_to_rerank[i] EXCEPT !.score = None]]

-----------------------------------------------------------------------------
(* apply_boost                                                             *)
(*                                                                         *)
(* With boost multipliers kept as halves and norm_range > 0, the float      *)
(*    boosted[i] = max(0, (score - norm_min) * boost * recency / norm_range) *)
(* equals BoostedNum(...)[i] / (2 * norm_range): the numerators are         *)
(* compared and stored, the denominator being positive and the same for    *)
(* all chunks of one call.                                                  *)

MaxOf(S) == CHOOSE x \in S : \A y \in S : x >= y

\* scores = [chunk.score or 0.0 for chunk in chunks]
BoostInputScores(chunks) == [i \in 1..Len(chunks) |-> ScoreOr0(chunks[i])]

\* norm_min = min(norm_min, min(scores[:norm_cutoff]))
NormMin(chunks, norm_cutoff, norm_min) ==
    MinOf({norm_min} \cup Range(Take(BoostInputScores(chunks), norm_cutoff)))

\* norm_max = max(norm_max, max(scores[:norm_cutoff]))
NormMax(chunks, norm_cutoff, norm_max) ==
    MaxOf({norm_max} \cup Range(Take(BoostInputScores(chunks), norm_cutoff)))

\* norm_range = norm_max - norm_min
NormRange(chunks, norm_cutoff, norm_min, norm_max) ==
    NormMax(chunks, norm_cutoff, norm_max) - NormMin(chunks, norm_cutoff, norm_min)

\* The call raises: min() of an empty slice (no chunk, or norm_cutoff = 0),
\* or the division by norm_range when norm_range is 0.
apply_boost_raises(chunks, norm_cutoff, norm_min, norm_max) ==
    \/ Take(BoostInputScores(chunks), norm_cutoff) = <<>>
    \/ NormRange(chunks, norm_cutoff, norm_min, norm_max) = 0

\* A faulty variant: the product is not clamped at 0.
BoostedNumUnclamped(chunk, nmin) ==
    (ScoreOr0(chunk) - nmin)
        * translate_boost_count_to_multiplier_x2(chunk.boost)
        * chunk.recency_bias

\* boosted_scores[i] * 2 * norm_range :
\* max(0, (score - norm_min) * boost * recency / norm_range)
BoostedNum(chunk, nmin) ==
    LET product == (ScoreOr0(chunk) - nmin)
                     * translate_boost_count_to_multiplier_x2(chunk.boost)
                     * chunk.recency_bias
    IN IF product < 0 THEN 0 ELSE product

\* rescored_chunks.sort(key=lambda x: x[0], reverse=True)
BoostSort(rescored_chunks) == SortDescByFirst(rescored_chunks)

\* final_chunks, each chunk carrying chunk.score = final_scores[ind]
apply_boost(chunks, norm_cutoff, norm_min, norm_max) ==
    LET nmin == NormMin(chunks, norm_cutoff, norm_min)
        rescored_chunks ==
            BoostSort([i \in 1..Len(chunks) |->
                          <<BoostedNum(chunks[i], nmin), chunks[i]>>])
    IN [k \in 1..Len(rescored_chunks) |->
           [rescored_chunks[k][2] EXCEPT !.score = Some(rescored_chunks[k][1])]]

-----------------------------------------------------------------------------
(* Query texts, _simplify_text, doc_index_retrieval, retrieve_chunks        *)
(*                                                                         *)
(* A text is a tuple of one-character strings.                             *)

Punctuation == {"?", "!"}

Whitespace == {" ", "\n", "\r"}

\* str.lower on the characters the model uses
Lower(char) == IF char = "Q" THEN "q" ELSE IF char = "K" THEN "k" ELSE char

RECURSIVE _simplify_text(_)
\* "".join(char for char in text
\*         if char not in string.punctuation and not char.isspace()).lower()
_simplify_text(text) ==
    IF text = <<>> THEN <<>>
    ELSE IF Head(text) \in Punctuation \cup Whitespace
         THEN _simplify_text(Tail(text))
         ELSE <<Lower(Head(text))>> \o _simplify_text(Tail(text))

\* A faulty variant: a hybrid search is served by the semantic operation.
IndexOperationNoHybrid(search_type) ==
    CASE search_type = "KEYWORD" -> "keyword_retrieval"
      [] search_type = "SEMANTIC" -> "semantic_retrieval"
      [] search_type = "HYBRID" -> "semantic_retrieval"

\* The DocumentIndex operation doc_index_retrieval calls for a search type
IndexOperation(search_type) ==
    CASE search_type = "KEYWORD" -> "keyword_retrieval"
      [] search_type = "SEMANTIC" -> "semantic_retrieval"
      [] search_type = "HYBRID" -> "hybrid_retrieval"

\* The call doc_index_retrieval makes on the index for query text `text`
doc_index_retrieval_call(q, text) ==
    [operation |-> IndexOperation(q.search_type), query |-> text]

\* A faulty variant: a query with a line break is expanded too.
NoExpansionIgnoresLineBreak(q, expansion) == ~expansion

\* The final else branch: raise RuntimeError("Invalid Search Flow")
doc_index_retrieval_raises(q) ==
    q.search_type \notin {"KEYWORD", "SEMANTIC", "HYBRID"}

\* The call doc_index_retrieval makes on the index, with every argument;
\* hybrid_alpha is passed to hybrid_retrieval only.
IndexCallArguments(q, hybrid_alpha) ==
    [operation |-> IndexOperation(q.search_type),
     query |-> q.query,
     filters |-> q.filters,
     favor_recent |-> q.favor_recent,
     num_to_retrieve |-> q.num_hits,
     hybrid_alpha |-> IF q.search_type = "HYBRID" THEN Some(hybrid_alpha)
                      ELSE None]

\* not multilingual_query_expansion or "\n" in query.query or "\r" in query.query
NoExpansion(q, expansion) ==
    \/ ~expansion
    \/ "\n" \in Range(q.query)
    \/ "\r" \in Range(q.query)

\* A faulty variant: a rephrase is skipped only when the very same text was
\* already kept (the texts of a set are distinct, so none is skipped).
RunQueriesExactDedup(rephrases, simplified_queries) ==
    SelectSeq(rephrases, LAMBDA t : t \notin simplified_queries)

RECURSIVE RunQueries(_, _)
\* The loop over set(query_rephrases), visited in the order `rephrases`:
\* a rephrase whose simplified text was already seen is skipped.  Returns
\* the query texts of run_queries, in order.
RunQueries(rephrases, simplified_queries) ==
    IF rephrases = <<>> THEN <<>>
    ELSE IF _simplify_text(Head(rephrases)) \in simplified_queries
         THEN RunQueries(Tail(rephrases), simplified_queries)
         ELSE <<Head(rephrases)>>
                \o RunQueries(Tail(rephrases),
                              simplified_queries \cup {_simplify_text(Head(rephrases))})

\* The orders in which a Python set with the elements S can be iterated
IterationOrders(S) ==
    {f \in [1..Cardinality(S) -> S] :
        \A i, j \in 1..Cardinality(S) : f[i] = f[j] => i = j}

\* A faulty variant: keyword searches are reranked too.
should_rerank_ignores_search_type(q) == ~q.skip_rerank

\* A faulty variant: skip_rerank is not honoured.
should_rerank_ignores_skip(q) == q.search_type # "KEYWORD"

\* should_rerank(query)

should_rerank(q) == q.search_type # "KEYWORD" /\ ~q.skip_rerank

\* should_apply_llm_based_relevance_filter(query)
should_apply_llm_based_relevance_filter(q) == ~q.skip_llm_chunk_filter

\* The list filter_chunks returns when the judge answers llm_chunk_selection
\* for the contents of chunks_to_filter[:max_llm_filter_chunks]
filter_chunks(q, chunks_to_filter, llm_chunk_selection) ==
    LET cut == Take(chunks_to_filter, q.max_llm_filter_chunks)
        picked == SelectSeq([i \in 1..Len(cut) |->
                                <<unique_id(cut[i]), llm_chunk_selection[i]>>],
                            LAMBDA p : p[2])
    IN [i \in 1..Len(picked) |-> picked[i][1]]

-----------------------------------------------------------------------------
(* SpecMerge: combine_retrieval_results applied to bounded inputs, then     *)
(* applied again to its own output and to the same lists in another order.  *)

ListCounts == {1, 2}

MaxChunks == 3

MergeKeys == {<<"d1", 0>>, <<"d1", 1>>, <<"d2", 0>>}

MergeScores == {None, Some(0), Some(1)}

\* The k-th chunk of the flattened input; content names the object.
MergeChunk(k, ks) ==
    [document_id |-> ks[1][1], chunk_id |-> ks[1][2], content |-> k,
     score |-> ks[2], boost |-> 0, recency_bias |-> 1]

\* The flattened chunks cut into n_lists lists at the positions cuts[i].
CutInto(flat, n_lists, cuts) ==
    [i \in 1..n_lists |->
        SubSeq(flat,
               (IF i = 1 THEN 0 ELSE cuts[i - 1]) + 1,
               IF i = n_lists THEN Len(flat) ELSE cuts[i])]

MergeInputs ==
    {CutInto([k \in 1..Len(ks) |-> MergeChunk(k, ks[k])], n, cuts) :
        <<ks, n, cuts>> \in
            {t \in SeqsUpTo(MergeKeys \X MergeScores, MaxChunks)
                     \X ListCounts
                     \X SeqsUpTo(0..MaxChunks, 1) :
                /\ Len(t[3]) = t[2] - 1
                /\ \A i \in 1..Len(t[3]) :
                      /\ t[3][i] <= Len(t[1])
                      /\ i > 1 => t[3][i - 1] <= t[3][i]}}
        \cup {<<>>}

Perms(n) == {f \in [1..n -> 1..n] : \A i, j \in 1..n : f[i] = f[j] => i = j}

MergeIdle ==
    /\ m_pc = "idle" /\ m_sets = <<>> /\ m_out = <<>>
    /\ m_sets2 = <<>> /\ m_out2 = <<>>

RerankIdle ==
    /\ r_pc = "idle" /\ r_in = <<>> /\ r_num = 0 /\ r_sim = <<>>
    /\ r_chunks = <<>> /\ r_out = <<>> /\ r_ranked = <<>>

SearchIdle ==
    /\ pc = "idle" /\ query = <<>> /\ multilingual_query_expansion = FALSE
    /\ retrieved_chunks = <<>> /\ chunks_yielded = FALSE
    /\ rerank_task = "none" /\ filter_task = "none" /\ filter_input = <<>>
    /\ post_processing_results = <<>> /\ yields = <<>>
    /\ index_calls = <<>> /\ rephraser_calls = 0 /\ rerank_calls = 0
    /\ index_results = <<>> /\ query_rephrases = <<>>
    /\ dispatched_chunks = <<>> /\ predict_outcome = <<>>
    /\ judge_call = <<>>
    /\ retrieval_metrics_callback = FALSE /\ retrieval_metrics = <<>>

BoostIdle ==
    /\ b_pc = "idle" /\ b_in = <<>> /\ b_cutoff = 0 /\ b_min = 0 /\ b_max = 0
    /\ b_out = <<>>

DispatchIdle ==
    /\ d_pc = "idle" /\ d_query = <<>> /\ d_alpha = 0 /\ d_calls = <<>>
    /\ d_out = <<>>

DocSetIdle ==
    /\ ds_pc = "idle" /\ document_set_table = <<>>
    /\ document_set__cc_pair_table = {} /\ ds_next_id = 0
    /\ ds_session = <<>> /\ ds_call = <<>> /\ ds_accepted = <<>>

InitMerge ==
    /\ m_pc = "init"
    /\ m_sets \in MergeInputs
    /\ m_out = <<>> /\ m_sets2 = <<>> /\ m_out2 = <<>>
    /\ RerankIdle /\ SearchIdle /\ BoostIdle /\ DispatchIdle /\ DocSetIdle

\* sorted_chunks = combine_retrieval_results(chunk_sets)
CombineCall ==
    /\ m_pc = "init"
    /\ m_out' = combine_retrieval_results(m_sets)
    /\ m_pc' = "merged"
    /\ UNCHANGED <<m_sets, m_sets2, m_out2, rerank_vars, search_vars,
                   boost_vars, dispatch_vars,
                   docset_vars>>

\* combine_retrieval_results([sorted_chunks]): the merger on its own output
CombineAgain ==
    /\ m_pc = "merged"
    /\ m_sets2' = <<m_out>>
    /\ m_out2' = combine_retrieval_results(<<m_out>>)
    /\ m_pc' = "remerged"
    /\ UNCHANGED <<m_sets, m_out, rerank_vars, search_vars,
                   boost_vars, dispatch_vars,
                   docset_vars>>

\* combine_retrieval_results on the same chunk lists taken in another order
CombineReordered ==
    /\ m_pc = "merged"
    /\ \E f \in Perms(Len(m_sets)) :
          /\ m_sets2' = [i \in 1..Len(m_sets) |-> m_sets[f[i]]]
          /\ m_out2' = combine_retrieval_results(m_sets2')
    /\ m_pc' = "permuted"
    /\ UNCHANGED <<m_sets, m_out, rerank_vars, search_vars,
                   boost_vars, dispatch_vars,
                   docset_vars>>

NextMerge == CombineCall \/ CombineAgain \/ CombineReordered

SpecMerge == InitMerge /\ [][NextMerge]_vars


-----------------------------------------------------------------------------
(* Claims about combine_retrieval_results, checked under SpecMerge          *)

MergeReturned == m_pc \in {"merged", "remerged", "permuted"}

KeysOf(chunks) == {Key(chunks[i]) : i \in 1..Len(chunks)}

\* Position in the flattened input of the first chunk of key k
FirstSeen(flat, k) ==
    CHOOSE i \in 1..Len(flat) :
        /\ Key(flat[i]) = k
        /\ \A j \in 1..(i - 1) : Key(flat[j]) # k

\* Position in the flattened input of the first chunk of key k among those
\* of the highest score of that key, an absent score counted as 0
FirstBest(flat, k) ==
    CHOOSE i \in 1..Len(flat) :
        /\ Key(flat[i]) = k
        /\ \A j \in 1..Len(flat) :
              Key(flat[j]) = k =>
                 \/ ScoreOr0(flat[j]) < ScoreOr0(flat[i])
                 \/ ScoreOr0(flat[j]) = ScoreOr0(flat[i]) /\ i <= j

\* C8: the output of combine_retrieval_results holds exactly one chunk for
\* each key (document_id, chunk_id) of the input, every output chunk is a
\* chunk of the input, and the output is ordered by score non-increasing
\* with an absent score counted as 0.
C8_OneChunkPerKeySorted ==
    MergeReturned =>
        /\ KeysOf(m_out) = KeysOf(Flatten(m_sets))
        /\ \A i, j \in 1..Len(m_out) : Key(m_out[i]) = Key(m_out[j]) => i = j
        /\ \A i \in 1..Len(m_out) : m_out[i] \in Range(Flatten(m_sets))
        /\ \A i \in 1..(Len(m_out) - 1) :
              ScoreOr0(m_out[i]) >= ScoreOr0(m_out[i + 1])

\* A merge of three chunks, two of them of one key, whose input order is not
\* the output order and whose output holds a chunk with no score.
C8_Witness ==
    /\ m_pc = "merged"
    /\ Len(Flatten(m_sets)) = 3
    /\ Len(m_out) = 2
    /\ ScoreOr0(m_out[1]) > ScoreOr0(m_out[2])
    /\ m_out[2].score = None
    /\ Key(Flatten(m_sets)[1]) = Key(m_out[2])

\* C9: for each key the merger keeps the input chunk of the highest score
\* (absent counted as 0), the first one in flattened input order when
\* several tie on it; and output chunks of different keys with equal scores
\* stand in the order in which their keys were first seen.
C9_KeepsFirstBestStableTies ==
    MergeReturned =>
        LET flat == Flatten(m_sets) IN
        /\ \A i \in 1..Len(m_out) :
              m_out[i] = flat[FirstBest(flat, Key(m_out[i]))]
        /\ \A i, j \in 1..Len(m_out) :
              (i < j /\ ScoreOr0(m_out[i]) = ScoreOr0(m_out[j])) =>
                 FirstSeen(flat, Key(m_out[i])) < FirstSeen(flat, Key(m_out[j]))

\* Two lists that each hold a chunk of the same key with the same score,
\* and a second key that ties with it in the output.
C9_Witness ==
    /\ m_pc = "merged"
    /\ Len(m_sets) = 2
    /\ Len(m_out) = 2
    /\ ScoreOr0(m_out[1]) = ScoreOr0(m_out[2])
    /\ \E i \in 1..Len(m_sets[1]) : \E j \in 1..Len(m_sets[2]) :
          /\ Key(m_sets[1][i]) = Key(m_sets[2][j])
          /\ ScoreOr0(m_sets[1][i]) = ScoreOr0(m_sets[2][j])
          /\ m_sets[1][i] \in Range(m_out)

\* The chunk the list holds for key k
ChunkOfKey(chunks, k) == chunks[DictIndex(chunks, k)]

\* C10 (as amended): merging the single list that an earlier merge returned
\* returns that same list; merging the same chunk lists in another order of
\* the lists gives the same set of keys, the same score per key with an
\* absent score counted as 0, and the same relative order of every two
\* chunks whose scores (absent counted as 0) differ.
C10_IdempotentCommutativeUpToAbsent ==
    /\ m_pc = "remerged" => m_out2 = m_out
    /\ m_pc = "permuted" =>
          /\ KeysOf(m_out2) = KeysOf(m_out)
          /\ \A k \in KeysOf(m_out) :
                ScoreOr0(ChunkOfKey(m_out2, k)) = ScoreOr0(ChunkOfKey(m_out, k))
          /\ \A k1, k2 \in KeysOf(m_out) :
                ScoreOr0(ChunkOfKey(m_out, k1)) # ScoreOr0(ChunkOfKey(m_out, k2)) =>
                   (DictIndex(m_out, k1) < DictIndex(m_out, k2)
                       <=> DictIndex(m_out2, k1) < DictIndex(m_out2, k2))

\* The lists were merged in another order and the two results differ, while
\* holding chunks of different scores.
C10_Witness ==
    /\ m_pc = "permuted"
    /\ m_sets2 # m_sets
    /\ m_out2 # m_out
    /\ Len(m_out) >= 2
    /\ ScoreOr0(m_out[1]) # ScoreOr0(m_out[Len(m_out)])

\* C10 (as stated): idempotent, and commutative with the same score per key
\* and the same order except among chunks with equal scores, a score being
\* what the field holds (an absent score is not the score 0).
C10_AsStated ==
    /\ m_pc = "remerged" => m_out2 = m_out
    /\ m_pc = "permuted" =>
          /\ KeysOf(m_out2) = KeysOf(m_out)
          /\ \A k \in KeysOf(m_out) :
                ChunkOfKey(m_out2, k).score = ChunkOfKey(m_out, k).score
          /\ \A k1, k2 \in KeysOf(m_out) :
                ChunkOfKey(m_out, k1).score # ChunkOfKey(m_out, k2).score =>
                   (DictIndex(m_out, k1) < DictIndex(m_out, k2)
                       <=> DictIndex(m_out2, k1) < DictIndex(m_out2, k2))


-----------------------------------------------------------------------------
(* SpecRerank: rerank_chunks on one bounded chunk list                      *)

MaxRerankInput == 3

MaxNumRerank == 3

RerankScores == {None, Some(1)}

RerankBoosts == {-1, 1}

EnsembleSizes == {1, 2}

SimValues == {0, 1}

\* The i-th chunk of an input list: the keys are distinct
RerankChunk(i, sb) ==
    [document_id |-> "d1", chunk_id |-> i, content |-> i,
     score |-> sb[1], boost |-> sb[2], recency_bias |-> 1]

RerankInputs ==
    {[i \in 1..Len(sbs) |-> RerankChunk(i, sbs[i])] :
        sbs \in SeqsUpTo(RerankScores \X RerankBoosts, MaxRerankInput)}

\* What CrossEncoderEnsembleModel.predict can do for n passages, with an
\* ensemble of one of the given sizes
PredictionsOf(n, sizes) ==
    {[raised |-> TRUE, scores |-> <<>>]}
        \cup {[raised |-> FALSE, scores |-> sc] :
                sc \in UNION {[1..m -> [1..n -> SimValues]] : m \in sizes}}

Predictions(n) == PredictionsOf(n, EnsembleSizes)

InitRerank ==
    /\ r_pc = "init"
    /\ r_in \in RerankInputs
    /\ r_num \in 0..MaxNumRerank
    /\ r_sim = <<>> /\ r_chunks = r_in /\ r_out = <<>> /\ r_ranked = <<>>
    /\ MergeIdle /\ SearchIdle /\ BoostIdle /\ DispatchIdle /\ DocSetIdle

\* rerank_chunks returns
RerankReturn ==
    /\ r_pc = "init"
    /\ \E predicted \in Predictions(Len(Take(r_in, r_num))) :
          /\ ~rerank_chunks_raises(r_num, r_in, predicted)
          /\ r_sim' = predicted
          /\ r_out' = rerank_chunks(r_num, r_in, predicted.scores)
          /\ r_ranked' = semantic_reranking(Take(r_in, r_num),
                                            predicted.scores)
          /\ r_chunks' = rerank_chunks_in_place(r_num, r_in, predicted.scores)
    /\ r_pc' = "returned"
    /\ UNCHANGED <<r_in, r_num, merge_vars, search_vars,
                   boost_vars, dispatch_vars,
                   docset_vars>>

\* rerank_chunks raises out of semantic_reranking, before any score is set
RerankRaise ==
    /\ r_pc = "init"
    /\ \E predicted \in Predictions(Len(Take(r_in, r_num))) :
          /\ rerank_chunks_raises(r_num, r_in, predicted)
          /\ r_sim' = predicted
    /\ r_pc' = "raised"
    /\ UNCHANGED <<r_in, r_num, r_chunks, r_out, r_ranked, merge_vars,
                   search_vars,
                   boost_vars, dispatch_vars,
                   docset_vars>>

NextRerank == RerankReturn \/ RerankRaise

SpecRerank == InitRerank /\ [][NextRerank]_vars

\* A chunk without its score: what identifies the object
Unscored(chunk) == [chunk EXCEPT !.score = None]

\* The number of chunks that are handed to the reranker
NumReranked == IF r_num < Len(r_in) THEN r_num ELSE Len(r_in)

C7_TopScoredTailCleared ==
    r_pc = "returned" =>
        /\ \A i \in 1..Len(r_out) :
              /\ i <= r_num => r_out[i].score # None
              /\ i > r_num => r_out[i].score = None
        /\ \A i \in 1..(NumReranked - 1) :
              r_out[i].score[1] >= r_out[i + 1].score[1]
        /\ \A i \in 1..Len(r_chunks) :
              /\ i <= r_num => r_chunks[i].score # None
              /\ i > r_num => r_chunks[i].score = None
        /\ Range(r_chunks) = Range(r_out)

\* A chunk without retrieval score is reranked and a chunk with a retrieval
\* score lies beyond num_rerank.
C7_Witness ==
    /\ r_pc = "returned"
    /\ Len(r_in) = 3
    /\ r_num = 1
    /\ r_in[1].score = None
    /\ r_in[3].score # None
    /\ r_out[3].score = None

\* The chunks semantic_reranking was called with, and the averaged scores
ChunksReranked == Take(r_in, r_num)

\* C22: whenever semantic_reranking returns, (1) the returned index list
\* is a permutation of the input positions and entry k is the input
\* position of the k-th returned chunk; (2) the returned chunks are ordered
\* by normalized score non-increasing, chunks of equal normalized score in
\* input order, whatever their raw averaged scores are; (3) the k-th
\* returned chunk's score is the normalized value of its input position,
\* the k-th of the sorted values; (4) a single input chunk is returned at
\* position one.
C22_RankedByNormalizedStable ==
    r_pc = "returned" =>
        LET n == Len(ChunksReranked)
            idx == r_ranked.ranked_indices
            norm(i) == NormalizedNum(ChunksReranked, r_sim.scores, i)
        IN /\ Len(idx) = n /\ Len(r_ranked.ranked_chunks) = n
           /\ {idx[k] : k \in 1..n} = 1..n
           /\ \A k \in 1..n :
                 /\ Unscored(r_ranked.ranked_chunks[k])
                       = Unscored(ChunksReranked[idx[k]])
                 /\ r_ranked.ranked_chunks[k].score = Some(norm(idx[k]))
           /\ \A k, l \in 1..n :
                 k < l => \/ norm(idx[k]) > norm(idx[l])
                          \/ /\ norm(idx[k]) = norm(idx[l])
                             /\ idx[k] < idx[l]
           /\ n = 1 => idx = <<1>>

\* The reranker puts the second chunk first although its raw averaged
\* score is the lower one, and two chunks tie and keep their input order.
C22_Witness ==
    /\ r_pc = "returned"
    /\ Len(ChunksReranked) = 3
    /\ r_ranked.ranked_indices = <<2, 1, 3>>
    /\ RawSimNum(r_sim.scores, 2) < RawSimNum(r_sim.scores, 1)
    /\ NormalizedNum(ChunksReranked, r_sim.scores, 1)
          = NormalizedNum(ChunksReranked, r_sim.scores, 3)

\* One chunk is reranked and comes back at position one with its new score.
C22_WitnessSingle ==
    /\ r_pc = "returned"
    /\ Len(ChunksReranked) = 1
    /\ Len(r_in) = 2
    /\ r_ranked.ranked_indices = <<1>>
    /\ r_in[1].score = None
    /\ r_ranked.ranked_chunks[1].score # None


-----------------------------------------------------------------------------
(* SpecBoost: apply_boost on one bounded chunk list                         *)

MaxBoostInput == 3

MaxNormCutoff == 3

BoostScores == {None, Some(1), Some(2)}

\* (boost count, recency_bias) of a chunk; recency_bias is non-negative
BoostWeights == {<<0, 1>>, <<1, 1>>, <<0, 0>>}

NormMins == {0, 1}

NormMaxs == {1, 2}

\* The i-th chunk of an input list: chunk_id is the input position
BoostChunk(i, sw) ==
    [document_id |-> "d1", chunk_id |-> i, content |-> i,
     score |-> sw[1], boost |-> sw[2][1], recency_bias |-> sw[2][2]]

BoostInputs ==
    {[i \in 1..Len(sws) |-> BoostChunk(i, sws[i])] :
        sws \in SeqsUpTo(BoostScores \X BoostWeights, MaxBoostInput)}

InitBoost ==
    /\ b_pc = "init"
    /\ b_in \in BoostInputs
    /\ b_cutoff \in 0..MaxNormCutoff
    /\ b_min \in NormMins
    /\ b_max \in NormMaxs
    /\ b_out = <<>>
    /\ MergeIdle /\ RerankIdle /\ SearchIdle /\ DispatchIdle /\ DocSetIdle

\* apply_boost returns
BoostReturn ==
    /\ b_pc = "init"
    /\ ~apply_boost_raises(b_in, b_cutoff, b_min, b_max)
    /\ b_out' = apply_boost(b_in, b_cutoff, b_min, b_max)
    /\ b_pc' = "returned"
    /\ UNCHANGED <<b_in, b_cutoff, b_min, b_max, merge_vars, rerank_vars,
                   search_vars, dispatch_vars,
                   docset_vars>>

\* apply_boost raises (ValueError from min(), or ZeroDivisionError), before
\* any score is set
BoostRaise ==
    /\ b_pc = "init"
    /\ apply_boost_raises(b_in, b_cutoff, b_min, b_max)
    /\ b_pc' = "raised"
    /\ UNCHANGED <<b_in, b_cutoff, b_min, b_max, b_out, merge_vars,
                   rerank_vars, search_vars, dispatch_vars,
                   docset_vars>>

NextBoost == BoostReturn \/ BoostRaise

SpecBoost == InitBoost /\ [][NextBoost]_vars

C12_EmptyWindowFallsBack ==
    (/\ b_pc \in {"returned", "raised"}
     /\ Take(BoostInputScores(b_in), b_cutoff) # <<>>
     /\ NormRange(b_in, b_cutoff, b_min, b_max) = 0) =>
        /\ b_pc = "returned"
        /\ Len(b_out) = Len(b_in)
        /\ \A k \in 1..Len(b_out) :
              b_out[k].score =
                 Some(ScoreOr0(b_in[b_out[k].chunk_id])
                        * translate_boost_count_to_multiplier_x2(b_out[k].boost)
                        * b_out[k].recency_bias)

-----------------------------------------------------------------------------
(* Spec: one run of full_chunk_search_generator                             *)
(*                                                                         *)
(* pc follows the generator: "start", "retrieved", "empty_1" (after the     *)
(* first empty yield), "plan_filter", "run" (about to call                  *)
(* run_functions_in_parallel), "join" (tasks running), "joined",            *)
(* "mask" (about to yield the mask), "done".  A task is "none" (never       *)
(* appended), "queued" (appended to post_processing_tasks), "running",      *)
(* "done" or "failed".  An optional result is <<>> (absent) or <<value>>.   *)

MaxHits == 2

MaxRerankParam == 2

MaxFilterParam == 2

SearchTypes == {"KEYWORD", "SEMANTIC", "HYBRID"}

QueryTexts == {<<"Q">>, <<"Q", "\n">>, <<"Q", "\r">>}

\* What rephrase_query can return
RephraserOutputs == {<<>>, << <<"q">> >>, << <<"Q">>, <<"q">> >>, << <<"k">> >>}

IndexKeys == {<<"d1", 0>>, <<"d1", 1>>, <<"d2", 0>>}

IndexScores == {Some(1)}

SearchEnsembleSizes == {1}

IndexChunk(ks) ==
    [document_id |-> ks[1][1], chunk_id |-> ks[1][2], content |-> ks[1],
     score |-> ks[2], boost |-> 0, recency_bias |-> 1]

\* What one retrieval call on the index can return: at most MaxHits chunks
\* of distinct keys
IndexResults ==
    {[i \in 1..Len(kss) |-> IndexChunk(kss[i])] :
        kss \in {t \in SeqsUpTo(IndexKeys \X IndexScores, MaxHits) :
                    \A i, j \in 1..Len(t) : t[i][1] = t[j][1] => i = j}}

Queries ==
    [query : QueryTexts,
     search_type : SearchTypes,
     skip_rerank : BOOLEAN,
     skip_llm_chunk_filter : BOOLEAN,
     num_rerank : 0..MaxRerankParam,
     max_llm_filter_chunks : 0..MaxFilterParam]

\* The texts retrieve_chunks can dispatch retrievals for, in order
DispatchedTexts(q, expansion) ==
    IF NoExpansion(q, expansion) THEN {<<q.query>>}
    ELSE {RunQueries(order, {}) :
            order \in UNION {IterationOrders(Range(Append(rephrases, q.query))) :
                                rephrases \in RephraserOutputs}}

InitSearch ==
    /\ pc = "start"
    /\ query \in Queries
    /\ multilingual_query_expansion \in BOOLEAN
    /\ retrieved_chunks = <<>> /\ chunks_yielded = FALSE
    /\ rerank_task = "none" /\ filter_task = "none" /\ filter_input = <<>>
    /\ post_processing_results = [rerank |-> <<>>, filter |-> <<>>]
    /\ yields = <<>>
    /\ index_calls = <<>> /\ rephraser_calls = 0 /\ rerank_calls = 0
    /\ index_results = <<>> /\ query_rephrases = <<>>
    /\ dispatched_chunks = <<>> /\ predict_outcome = <<>>
    /\ judge_call = <<>>
    \* the callback is used after the two retrieval paths have joined: runs
    \* without a callback are taken on the single-retrieval path only
    /\ retrieval_metrics_callback \in
          (IF NoExpansion(query, multilingual_query_expansion)
           THEN BOOLEAN ELSE {TRUE})
    /\ retrieval_metrics = <<>>
    /\ MergeIdle /\ RerankIdle /\ BoostIdle /\ DispatchIdle /\ DocSetIdle

\* What one sub-retrieval of the fan-out can do: fail (<<>>) or return a list
IndexOutcomes == {None} \cup {Some(result) : result \in IndexResults}

\* The keys of IndexKeys, in the order in which they are used to name chunks
IndexKeyOrder == << <<"d1", 0>>, <<"d1", 1>>, <<"d2", 0>> >>

RECURSIVE FirstAppearances(_, _)
\* The distinct keys of the chunk list, in the order of their first appearance
FirstAppearances(chunks, seen) ==
    IF chunks = <<>> THEN <<>>
    ELSE IF Key(Head(chunks)) \in seen
         THEN FirstAppearances(Tail(chunks), seen)
         ELSE <<Key(Head(chunks))>>
                \o FirstAppearances(Tail(chunks), seen \cup {Key(Head(chunks))})

\* Chunk keys are opaque to the pipeline, so the chunks the index returns in
\* one search are named in the order in which the index first returns them:
\* every other run of the search is one of these up to a renaming of keys.
NamedInOrder(results) ==
    LET keys == FirstAppearances(Flatten(results), {})
    IN keys = SubSeq(IndexKeyOrder, 1, Len(keys))

\* What run_functions_tuples_in_parallel hands back: the lists of the
\* sub-retrievals that returned, in submission order; a sub-retrieval that
\* failed contributes nothing.
ParallelSearchResults(outcomes) ==
    LET returned == SelectSeq(outcomes, LAMBDA o : o # None)
    IN [i \in 1..Len(returned) |-> returned[i][1]]

\* A faulty variant: only the first list of the fan-out is used.
TopChunksFirstOnly(parallel_search_results) ==
    IF parallel_search_results = <<>> THEN <<>> ELSE parallel_search_results[1]

\* top_chunks = combine_retrieval_results(parallel_search_results)
TopChunks(parallel_search_results) ==
    combine_retrieval_results(parallel_search_results)

\* metrics = [ChunkMetric(...) for chunk in top_chunks], a missing score
\* being reported as 0, in a RetrievalMetricsContainer
RetrievalMetricsContainer(q, top_chunks) ==
    [search_type |-> q.search_type,
     metrics |-> [i \in 1..Len(top_chunks) |->
                     [document_id |-> top_chunks[i].document_id,
                      chunk_content_start |-> top_chunks[i].content,
                      score |-> ScoreOr0(top_chunks[i])]]]

\* The calls of retrieval_metrics_callback made by retrieve_chunks: none
\* after the early `return []`, none without a callback, else one.
RetrievalMetricsCalls(callback, q, top_chunks) ==
    IF top_chunks = <<>> THEN <<>>
    ELSE IF callback THEN <<RetrievalMetricsContainer(q, top_chunks)>>
    ELSE <<>>

\* retrieved_chunks = retrieve_chunks(...): without expansion one call of
\* doc_index_retrieval; with expansion the rephraser is asked, the original
\* text is appended, the set of texts is visited in some order, one
\* retrieval per kept text runs, and the results are merged.
RetrieveChunks ==
    /\ pc = "start"
    /\ IF NoExpansion(query, multilingual_query_expansion)
       THEN \E result \in IndexResults :
               /\ NamedInOrder(<<result>>)
               /\ index_calls' = <<doc_index_retrieval_call(query, query.query)>>
               /\ index_results' = <<Some(result)>>
               /\ retrieved_chunks' = result
               /\ retrieval_metrics' =
                     RetrievalMetricsCalls(retrieval_metrics_callback, query,
                                           result)
               /\ query_rephrases' = <<>>
               /\ rephraser_calls' = 0
       ELSE \E rephrases \in RephraserOutputs :
            \E order \in IterationOrders(Range(Append(rephrases, query.query))) :
            \E outcomes \in [1..Len(RunQueries(order, {})) -> IndexOutcomes] :
               /\ NamedInOrder(ParallelSearchResults(outcomes))
               /\ index_calls' =
                     [i \in 1..Len(RunQueries(order, {})) |->
                         doc_index_retrieval_call(query, RunQueries(order, {})[i])]
               /\ index_results' = outcomes
               /\ retrieved_chunks' = TopChunks(ParallelSearchResults(outcomes))
               /\ retrieval_metrics' =
                     RetrievalMetricsCalls(
                        retrieval_metrics_callback, query,
                        TopChunks(ParallelSearchResults(outcomes)))
               /\ query_rephrases' = rephrases
               /\ rephraser_calls' = 1
    /\ pc' = "retrieved"
    /\ UNCHANGED <<query, multilingual_query_expansion, chunks_yielded,
                   rerank_task, filter_task, filter_input,
                   post_processing_results, yields, rerank_calls,
                   merge_vars, rerank_vars, boost_vars, dispatch_vars, retrieval_metrics_callback,
                   dispatched_chunks, predict_outcome, judge_call,
                   docset_vars>>

ChunksYield(chunks) == [kind |-> "chunks", value |-> chunks]

MaskYield(mask) == [kind |-> "mask", value |-> mask]

\* if not retrieved_chunks: yield []
YieldEmptyChunks ==
    /\ pc = "retrieved"
    /\ retrieved_chunks = <<>>
    /\ yields' = Append(yields, ChunksYield(<<>>))
    /\ pc' = "empty_1"
    /\ UNCHANGED <<query, multilingual_query_expansion, retrieved_chunks,
                   chunks_yielded, rerank_task, filter_task, filter_input,
                   post_processing_results, index_calls, rephraser_calls,
                   rerank_calls, merge_vars, rerank_vars, boost_vars,
                   dispatch_vars, retrieval_metrics_callback,
                   retrieval_metrics,
                   index_results, query_rephrases, dispatched_chunks,
                   predict_outcome, judge_call,
                   docset_vars>>

\* ... yield []; return
YieldEmptyMask ==
    /\ pc = "empty_1"
    /\ yields' = Append(yields, MaskYield(<<>>))
    /\ pc' = "done"
    /\ UNCHANGED <<query, multilingual_query_expansion, retrieved_chunks,
                   chunks_yielded, rerank_task, filter_task, filter_input,
                   post_processing_results, index_calls, rephraser_calls,
                   rerank_calls, merge_vars, rerank_vars, boost_vars,
                   dispatch_vars, retrieval_metrics_callback,
                   retrieval_metrics,
                   index_results, query_rephrases, dispatched_chunks,
                   predict_outcome, judge_call,
                   docset_vars>>

\* A faulty variant: the generator does not return early on an empty retrieval.
PlanRerankOrYieldOnEmpty ==
    /\ pc = "retrieved"
    /\ IF should_rerank(query)
       THEN /\ rerank_task' = "queued"
            /\ UNCHANGED <<yields, chunks_yielded>>
       ELSE /\ yields' = Append(yields, ChunksYield(retrieved_chunks))
            /\ chunks_yielded' = TRUE
            /\ UNCHANGED rerank_task
    /\ pc' = "plan_filter"
    /\ UNCHANGED <<query, multilingual_query_expansion, retrieved_chunks,
                   filter_task, filter_input, post_processing_results,
                   index_calls, rephraser_calls, rerank_calls,
                   merge_vars, rerank_vars, boost_vars, dispatch_vars, retrieval_metrics_callback,
                   retrieval_metrics,
                   index_results, query_rephrases, dispatched_chunks,
                   predict_outcome, judge_call,
                   docset_vars>>

\* if should_rerank(query): append the rerank task
\* else: yield final_chunks; chunks_yielded = True
PlanRerankOrYield ==
    /\ pc = "retrieved"
    /\ retrieved_chunks # <<>>
    /\ IF should_rerank(query)
       THEN /\ rerank_task' = "queued"
            /\ UNCHANGED <<yields, chunks_yielded>>
       ELSE /\ yields' = Append(yields, ChunksYield(retrieved_chunks))
            /\ chunks_yielded' = TRUE
            /\ UNCHANGED rerank_task
    /\ pc' = "plan_filter"
    /\ UNCHANGED <<query, multilingual_query_expansion, retrieved_chunks,
                   filter_task, filter_input, post_processing_results,
                   index_calls, rephraser_calls, rerank_calls,
                   merge_vars, rerank_vars, boost_vars, dispatch_vars, retrieval_metrics_callback,
                   retrieval_metrics,
                   index_results, query_rephrases, dispatched_chunks,
                   predict_outcome, judge_call,
                   docset_vars>>

\* if should_apply_llm_based_relevance_filter(query): append the filter task
\* on retrieved_chunks[: query.max_llm_filter_chunks]
PlanFilter ==
    /\ pc = "plan_filter"
    /\ IF should_apply_llm_based_relevance_filter(query)
       THEN /\ filter_task' = "queued"
            /\ filter_input' = Take(retrieved_chunks, query.max_llm_filter_chunks)
       ELSE UNCHANGED <<filter_task, filter_input>>
    /\ pc' = "run"
    /\ UNCHANGED <<query, multilingual_query_expansion, retrieved_chunks,
                   chunks_yielded, rerank_task, post_processing_results, yields,
                   index_calls, rephraser_calls, rerank_calls,
                   merge_vars, rerank_vars, boost_vars, dispatch_vars, retrieval_metrics_callback,
                   retrieval_metrics,
                   index_results, query_rephrases, dispatched_chunks,
                   predict_outcome, judge_call,
                   docset_vars>>

\* run_functions_in_parallel(post_processing_tasks) if post_processing_tasks
\* else {}: every appended task is submitted to the pool
RunInParallel ==
    /\ pc = "run"
    /\ rerank_task' = IF rerank_task = "queued" THEN "running" ELSE rerank_task
    /\ filter_task' = IF filter_task = "queued" THEN "running" ELSE filter_task
    /\ pc' = IF rerank_task = "queued" \/ filter_task = "queued"
             THEN "join" ELSE "joined"
    /\ dispatched_chunks' = retrieved_chunks
    /\ UNCHANGED <<query, multilingual_query_expansion, retrieved_chunks,
                   chunks_yielded, filter_input, post_processing_results, yields,
                   index_calls, rephraser_calls, rerank_calls,
                   merge_vars, rerank_vars, boost_vars, dispatch_vars, retrieval_metrics_callback,
                   retrieval_metrics,
                   index_results, query_rephrases,
                   predict_outcome, judge_call,
                   docset_vars>>

\* What run_functions_in_parallel keeps for a task: the value it returned,
\* and nothing for a task that raised (the failure is logged and absorbed).
ParallelResult(raised, returned) == IF raised THEN <<>> ELSE <<returned>>

\* The rerank task: rerank_chunks(query, retrieved_chunks, callback) in a
\* pool thread.
RerankTask ==
    /\ pc = "join"
    /\ rerank_task = "running"
    /\ rerank_calls' = rerank_calls + 1
    /\ \E predicted \in PredictionsOf(Len(Take(retrieved_chunks, query.num_rerank)),
                                      SearchEnsembleSizes) :
          LET raised == rerank_chunks_raises(query.num_rerank, retrieved_chunks,
                                             predicted)
          IN
          /\ rerank_task' = IF raised THEN "failed" ELSE "done"
          /\ post_processing_results' =
                [post_processing_results EXCEPT !.rerank =
                    ParallelResult(raised,
                        IF raised THEN <<>>
                        ELSE rerank_chunks(query.num_rerank, retrieved_chunks,
                                           predicted.scores))]
          /\ retrieved_chunks' =
                IF raised THEN retrieved_chunks
                ELSE rerank_chunks_in_place(query.num_rerank, retrieved_chunks,
                                            predicted.scores)
          /\ predict_outcome' = Some(predicted)
    /\ UNCHANGED <<pc, query, multilingual_query_expansion, chunks_yielded,
                   filter_task, filter_input, yields, index_calls,
                   rephraser_calls, merge_vars, rerank_vars, boost_vars,
                   dispatch_vars, retrieval_metrics_callback,
                   retrieval_metrics, index_results, query_rephrases,
                   dispatched_chunks, judge_call,
                   docset_vars>>

\* What llm_batch_eval_chunks can do for n chunk contents
JudgeAnswers(n) ==
    {[raised |-> TRUE, selection |-> <<>>]}
        \cup {[raised |-> FALSE, selection |-> sel] : sel \in [1..n -> BOOLEAN]}

\* The chunk objects of the slice handed to the filter task, as they are
\* now: the slice is a new list of the same objects, which the rerank task
\* may have written to in the meantime.
FilterObjects == Take(retrieved_chunks, Len(filter_input))

\* [chunk.content for chunk in chunks_to_filter]
ChunkContents(chunks) == [i \in 1..Len(chunks) |-> chunks[i].content]

\* The filter task: filter_chunks(query, the slice) in a pool thread; the
\* contents are read from the chunk objects when the task runs.
FilterTask ==
    /\ pc = "join"
    /\ filter_task = "running"
    /\ \E answer \in JudgeAnswers(Len(Take(filter_input, query.max_llm_filter_chunks))) :
          /\ filter_task' = IF answer.raised THEN "failed" ELSE "done"
          /\ post_processing_results' =
                [post_processing_results EXCEPT !.filter =
                    ParallelResult(answer.raised,
                        IF answer.raised THEN <<>>
                        ELSE filter_chunks(query, FilterObjects, answer.selection))]
          /\ judge_call' =
                Some([chunk_contents |->
                         ChunkContents(Take(FilterObjects,
                                            query.max_llm_filter_chunks)),
                      answer |-> answer])
    /\ UNCHANGED <<pc, query, multilingual_query_expansion, retrieved_chunks,
                   chunks_yielded, rerank_task, filter_input, yields,
                   index_calls, rephraser_calls, rerank_calls,
                   merge_vars, rerank_vars, boost_vars, dispatch_vars, retrieval_metrics_callback,
                   retrieval_metrics,
                   index_results, query_rephrases, dispatched_chunks,
                   predict_outcome,
                   docset_vars>>

\* run_functions_in_parallel returns once every submitted task has ended
Join ==
    /\ pc = "join"
    /\ rerank_task # "running"
    /\ filter_task # "running"
    /\ pc' = "joined"
    /\ UNCHANGED <<query, multilingual_query_expansion, retrieved_chunks,
                   chunks_yielded, rerank_task, filter_task, filter_input,
                   post_processing_results, yields, index_calls,
                   rephraser_calls, rerank_calls, merge_vars, rerank_vars,
                   boost_vars, dispatch_vars, retrieval_metrics_callback,
                   retrieval_metrics,
                   index_results, query_rephrases, dispatched_chunks,
                   predict_outcome, judge_call,
                   docset_vars>>

\* reranked_chunks = post_processing_results.get(str(rerank_task_id))
\*                   if rerank_task_id else None
RerankedChunks ==
    IF rerank_task # "none" /\ post_processing_results.rerank # <<>>
    THEN post_processing_results.rerank[1] ELSE <<>>

\* if reranked_chunks: yield them unless chunks were already yielded
YieldReranked ==
    /\ pc = "joined"
    /\ IF RerankedChunks # <<>> /\ ~chunks_yielded
       THEN yields' = Append(yields, ChunksYield(RerankedChunks))
       ELSE UNCHANGED yields
    /\ pc' = "mask"
    /\ UNCHANGED <<query, multilingual_query_expansion, retrieved_chunks,
                   chunks_yielded, rerank_task, filter_task, filter_input,
                   post_processing_results, index_calls, rephraser_calls,
                   rerank_calls, merge_vars, rerank_vars, boost_vars,
                   dispatch_vars, retrieval_metrics_callback,
                   retrieval_metrics,
                   index_results, query_rephrases, dispatched_chunks,
                   predict_outcome, judge_call,
                   docset_vars>>

\* A faulty variant: the mask is always laid out in retrieval order.
MaskedChunksRetrievalOrder == retrieved_chunks

\* `reranked_chunks or retrieved_chunks`
MaskedChunks == IF RerankedChunks # <<>> THEN RerankedChunks ELSE retrieved_chunks

\* A faulty variant: without a filter result every chunk is masked out.
LlmChunkMaskFailClosed ==
    IF filter_task # "none" /\ post_processing_results.filter # <<>>
    THEN [i \in 1..Len(MaskedChunks) |->
            unique_id(MaskedChunks[i]) \in Range(post_processing_results.filter[1])]
    ELSE [i \in 1..Len(MaskedChunks) |-> FALSE]

\* The last yield: membership of each chunk's unique_id in
\* llm_chunk_selection if the filter task left a result, else all True
LlmChunkMask ==
    IF filter_task # "none" /\ post_processing_results.filter # <<>>
    THEN [i \in 1..Len(MaskedChunks) |->
            unique_id(MaskedChunks[i]) \in Range(post_processing_results.filter[1])]
    ELSE [i \in 1..Len(MaskedChunks) |-> TRUE]

YieldMask ==
    /\ pc = "mask"
    /\ yields' = Append(yields, MaskYield(LlmChunkMask))
    /\ pc' = "done"
    /\ UNCHANGED <<query, multilingual_query_expansion, retrieved_chunks,
                   chunks_yielded, rerank_task, filter_task, filter_input,
                   post_processing_results, index_calls, rephraser_calls,
                   rerank_calls, merge_vars, rerank_vars, boost_vars,
                   dispatch_vars, retrieval_metrics_callback,
                   retrieval_metrics,
                   index_results, query_rephrases, dispatched_chunks,
                   predict_outcome, judge_call,
                   docset_vars>>

Next ==
    \/ RetrieveChunks
    \/ YieldEmptyChunks
    \/ YieldEmptyMask
    \/ PlanRerankOrYield
    \/ PlanFilter
    \/ RunInParallel
    \/ RerankTask
    \/ FilterTask
    \/ Join
    \/ YieldReranked
    \/ YieldMask

Init == InitSearch

Spec == Init /\ [][Next]_vars


-----------------------------------------------------------------------------
(* SpecDispatch: one call of doc_index_retrieval                            *)

MaxNumHits == 2

\* A value of search_type that is none of the three the dispatcher knows
UnknownSearchTypes == {"OTHER"}

IndexFilterValues == {"f1", "f2"}

HybridAlphas == {0, 1}

DispatchQueries ==
    [query : QueryTexts,
     search_type : SearchTypes \cup UnknownSearchTypes,
     filters : IndexFilterValues,
     favor_recent : BOOLEAN,
     num_hits : 0..MaxNumHits]

InitDispatch ==
    /\ d_pc = "init"
    /\ d_query \in DispatchQueries
    /\ d_alpha \in HybridAlphas
    /\ d_calls = <<>> /\ d_out = <<>>
    /\ MergeIdle /\ RerankIdle /\ SearchIdle /\ BoostIdle /\ DocSetIdle

\* One branch of the if/elif chain is taken, the index operation returns
\* top_chunks, and doc_index_retrieval returns them.
DispatchReturn ==
    /\ d_pc = "init"
    /\ ~doc_index_retrieval_raises(d_query)
    /\ d_calls' = <<IndexCallArguments(d_query, d_alpha)>>
    /\ \E top_chunks \in IndexResults : d_out' = top_chunks
    /\ d_pc' = "returned"
    /\ UNCHANGED <<d_query, d_alpha, merge_vars, rerank_vars, search_vars,
                   boost_vars,
                   docset_vars>>

\* The index operation that was called raises, and so does the call.
DispatchIndexFails ==
    /\ d_pc = "init"
    /\ ~doc_index_retrieval_raises(d_query)
    /\ d_calls' = <<IndexCallArguments(d_query, d_alpha)>>
    /\ d_pc' = "raised"
    /\ UNCHANGED <<d_query, d_alpha, d_out, merge_vars, rerank_vars,
                   search_vars, boost_vars,
                   docset_vars>>

\* else: raise RuntimeError("Invalid Search Flow")
DispatchInvalid ==
    /\ d_pc = "init"
    /\ doc_index_retrieval_raises(d_query)
    /\ d_pc' = "raised"
    /\ UNCHANGED <<d_query, d_alpha, d_calls, d_out, merge_vars, rerank_vars,
                   search_vars, boost_vars,
                   docset_vars>>

NextDispatch == DispatchReturn \/ DispatchIndexFails \/ DispatchInvalid

SpecDispatch == InitDispatch /\ [][NextDispatch]_vars

\* C19: a call of doc_index_retrieval makes exactly one call on the index,
\* of the operation its search_type selects (keyword_retrieval for KEYWORD,
\* semantic_retrieval for SEMANTIC, hybrid_retrieval for HYBRID), passing
\* the query text, filters, favor_recent and num_hits of the query
\* unchanged, and hybrid_alpha to hybrid_retrieval only; for any other
\* search_type it raises without calling the index.
C19_OneIndexCallBySearchType ==
    d_pc \in {"returned", "raised"} =>
        IF d_query.search_type \in {"KEYWORD", "SEMANTIC", "HYBRID"}
        THEN /\ Len(d_calls) = 1
             /\ d_query.search_type = "KEYWORD" =>
                   d_calls[1].operation = "keyword_retrieval"
             /\ d_query.search_type = "SEMANTIC" =>
                   d_calls[1].operation = "semantic_retrieval"
             /\ d_query.search_type = "HYBRID" =>
                   d_calls[1].operation = "hybrid_retrieval"
             /\ d_calls[1].query = d_query.query
             /\ d_calls[1].filters = d_query.filters
             /\ d_calls[1].favor_recent = d_query.favor_recent
             /\ d_calls[1].num_to_retrieve = d_query.num_hits
             /\ d_calls[1].hybrid_alpha =
                   IF d_query.search_type = "HYBRID" THEN Some(d_alpha) ELSE None
        ELSE /\ d_pc = "raised"
             /\ d_calls = <<>>
             /\ d_out = <<>>

\* A hybrid search with hybrid_alpha 1 and num_hits 2 that returned chunks.
C19_Witness ==
    /\ d_pc = "returned"
    /\ d_query.search_type = "HYBRID"
    /\ d_alpha = 1
    /\ d_query.num_hits = 2
    /\ d_query.favor_recent
    /\ d_calls[1].operation = "hybrid_retrieval"
    /\ d_out # <<>>

\* A call with an unknown search_type raised and the index was not called.
C19_WitnessInvalid ==
    /\ d_pc = "raised"
    /\ d_query.search_type \in UnknownSearchTypes
    /\ d_calls = <<>>

-----------------------------------------------------------------------------
(* Claims about full_chunk_search_generator, checked under Spec             *)

\* C1: the generator produces exactly two yields and then finishes, first a
\* chunk list and then a boolean mask of the same length, whatever the
\* index, rephraser, cross-encoder and judge do (a failing rerank or filter
\* task included); the chunk list is always the first thing yielded.
C1_AlwaysYieldsChunksThenMask ==
    /\ Len(yields) >= 1 => yields[1].kind = "chunks"
    /\ pc = "done" =>
          /\ Len(yields) = 2
          /\ yields[1].kind = "chunks"
          /\ yields[2].kind = "mask"
          /\ Len(yields[2].value) = Len(yields[1].value)

\* The generator has finished after two yields
TwoYields ==
    /\ pc = "done"
    /\ Len(yields) = 2
    /\ yields[1].kind = "chunks"
    /\ yields[2].kind = "mask"

\* C2: the second yield has one boolean per chunk of the first yield, in the
\* order of the first yield (the reranked list when the rerank task
\* returned one, the retrieved list otherwise): position i is true exactly
\* when the unique_id of the chunk at position i of the first yield is in
\* the list filter_chunks returned, and every position is true when
\* skip_llm_chunk_filter is set.
C2_MaskAlignedToFirstYield ==
    TwoYields =>
        LET first == yields[1].value
            mask == yields[2].value
        IN
        /\ Len(mask) = Len(first)
        /\ post_processing_results.rerank # <<>> =>
              first = post_processing_results.rerank[1]
        /\ post_processing_results.rerank = <<>> => first = retrieved_chunks
        /\ post_processing_results.filter # <<>> =>
              \A i \in 1..Len(first) :
                 mask[i] <=>
                    unique_id(first[i]) \in Range(post_processing_results.filter[1])
        /\ query.skip_llm_chunk_filter => \A i \in 1..Len(mask) : mask[i]

\* Rerank put the second retrieved chunk first, and the judge kept exactly
\* one of the two chunks.
C2_Witness ==
    /\ TwoYields
    /\ Len(yields[1].value) = 2
    /\ Key(yields[1].value[1]) = Key(retrieved_chunks[2])
    /\ yields[2].value[1] # yields[2].value[2]

\* C3: when retrieval returns no chunks the generator yields an empty chunk
\* list, then an empty mask, and returns; no rerank task and no filter task
\* is ever appended, submitted or run.
C3_EmptyRetrievalTwoEmptyYields ==
    (pc # "start" /\ retrieved_chunks = <<>>) =>
        /\ pc \in {"retrieved", "empty_1", "done"}
        /\ rerank_task = "none" /\ filter_task = "none"
        /\ rerank_calls = 0
        /\ pc = "retrieved" => yields = <<>>
        /\ pc = "empty_1" => yields = <<ChunksYield(<<>>)>>
        /\ pc = "done" => yields = <<ChunksYield(<<>>), MaskYield(<<>>)>>

\* A finished search whose retrieval was empty although both the rerank and
\* the filter stage were enabled.
C3_Witness ==
    /\ pc = "done"
    /\ retrieved_chunks = <<>>
    /\ query.search_type = "SEMANTIC"
    /\ ~query.skip_rerank
    /\ ~query.skip_llm_chunk_filter
    /\ Len(yields) = 2

\* C4: when reranking is disabled (search_type is KEYWORD or skip_rerank is
\* set), the first yield is the retrieved list, same chunks in the same
\* order, and it has been yielded before the filter task is even appended;
\* the mask that follows is aligned to that retrieval order.
C4_NoRerankYieldsRetrievalFirst ==
    (/\ query.search_type = "KEYWORD" \/ query.skip_rerank
     /\ pc # "start"
     /\ retrieved_chunks # <<>>) =>
        /\ (pc # "retrieved" \/ filter_task # "none") =>
              /\ Len(yields) >= 1
              /\ yields[1] = ChunksYield(retrieved_chunks)
        /\ pc = "done" =>
              /\ Len(yields) = 2
              /\ yields[2].kind = "mask"
              /\ Len(yields[2].value) = Len(retrieved_chunks)
              /\ post_processing_results.filter # <<>> =>
                    \A i \in 1..Len(retrieved_chunks) :
                       yields[2].value[i] <=>
                          unique_id(retrieved_chunks[i])
                             \in Range(post_processing_results.filter[1])

\* A keyword search with skip_rerank unset whose filter task is running
\* after the two retrieved chunks were yielded.
C4_Witness ==
    /\ query.search_type = "KEYWORD"
    /\ ~query.skip_rerank
    /\ pc = "join"
    /\ filter_task = "running"
    /\ Len(retrieved_chunks) = 2
    /\ yields = <<ChunksYield(retrieved_chunks)>>

\* C5: when search_type is KEYWORD the rerank task is never appended,
\* submitted or run, and rerank_chunks is never invoked, whatever the value
\* of skip_rerank.
C5_KeywordNeverReranks ==
    query.search_type = "KEYWORD" =>
        /\ rerank_task = "none"
        /\ rerank_calls = 0
        /\ post_processing_results.rerank = <<>>

\* A finished keyword search that did not ask to skip the rerank.
C5_Witness ==
    /\ query.search_type = "KEYWORD"
    /\ ~query.skip_rerank
    /\ pc = "done"
    /\ Len(retrieved_chunks) = 2
    /\ Len(yields) = 2

\* What the rerank task makes of the chunks that were submitted, given what
\* the cross-encoder did: <<>> when rerank_chunks raised, else the list
ExpectedReranked ==
    IF predict_outcome = <<>> THEN <<>>
    ELSE IF rerank_chunks_raises(query.num_rerank, dispatched_chunks,
                                 predict_outcome[1])
         THEN <<>>
         ELSE rerank_chunks(query.num_rerank, dispatched_chunks,
                            predict_outcome[1].scores)

AllTrue(mask) == \A i \in 1..Len(mask) : mask[i]

C14_RerankFailureDegrades ==
    (rerank_task = "failed" /\ predict_outcome[1].raised /\ pc = "done") =>
        /\ Len(yields) = 2
        /\ yields[1] =
              ChunksYield(Take(dispatched_chunks, query.num_rerank)
                             \o ClearScores(Drop(dispatched_chunks,
                                                 query.num_rerank)))
        /\ yields[2].kind = "mask"
        /\ Len(yields[2].value) = Len(dispatched_chunks)
        /\ post_processing_results.filter # <<>> =>
              \A i \in 1..Len(dispatched_chunks) :
                 yields[2].value[i] <=>
                    unique_id(dispatched_chunks[i])
                       \in Range(post_processing_results.filter[1])

\* The expansion branch of retrieve_chunks was taken
ExpansionRan == pc # "start" /\ rephraser_calls = 1

SomeFailed == \E i \in 1..Len(index_results) : index_results[i] = None

AllFailed == \A i \in 1..Len(index_results) : index_results[i] = None

C15_WitnessAllFailed ==
    /\ ExpansionRan
    /\ pc = "done"
    /\ Len(index_results) = 2
    /\ AllFailed
    /\ yields = <<ChunksYield(<<>>), MaskYield(<<>>)>>

\* C16: when multilingual expansion is not configured, or the query text
\* contains a line break, one search performs exactly one index retrieval,
\* with the original query text, and never invokes the rephraser.
C16_NoExpansionOneRetrieval ==
    (/\ pc # "start"
     /\ \/ ~multilingual_query_expansion
        \/ "\n" \in Range(query.query)
        \/ "\r" \in Range(query.query)) =>
        /\ Len(index_calls) = 1
        /\ index_calls[1].query = query.query
        /\ rephraser_calls = 0
        /\ query_rephrases = <<>>

\* A finished search with expansion configured whose query text holds a
\* line break.
C16_Witness ==
    /\ pc = "done"
    /\ multilingual_query_expansion
    /\ "\n" \in Range(query.query)
    /\ Len(index_calls) = 1
    /\ Len(yields) = 2

\* C17 (as stated): when expansion runs, the original query text is one of
\* the query texts for which a retrieval is dispatched, whatever the
\* rephraser returns and in whatever order the rephrases are visited.
C17_OriginalAlwaysDispatched ==
    ExpansionRan =>
        \E i \in 1..Len(index_calls) : index_calls[i].query = query.query

\* The canonical forms of the rephrases and of the original query
CanonicalForms ==
    {_simplify_text(t) : t \in Range(query_rephrases) \cup {query.query}}

\* C18: when expansion runs, the number of retrievals dispatched equals the
\* number of distinct canonical forms (lowercased, whitespace and
\* punctuation removed) among the rephrases plus the original query, and no
\* two dispatched query texts have the same canonical form; with rephrases
\* ["Q", "q"] and original "Q" exactly one retrieval runs.
C18_OneRetrievalPerCanonicalForm ==
    ExpansionRan =>
        /\ Len(index_calls) = Cardinality(CanonicalForms)
        /\ \A i, j \in 1..Len(index_calls) :
              _simplify_text(index_calls[i].query)
                 = _simplify_text(index_calls[j].query) => i = j
        /\ \A i \in 1..Len(index_calls) :
              index_calls[i].query \in Range(query_rephrases) \cup {query.query}
        /\ (query_rephrases = << <<"Q">>, <<"q">> >> /\ query.query = <<"Q">>) =>
              Len(index_calls) = 1

\* The rephraser returned ["Q", "q"] for the original "Q" and one retrieval
\* was dispatched.
C18_Witness ==
    /\ ExpansionRan
    /\ query_rephrases = << <<"Q">>, <<"q">> >>
    /\ query.query = <<"Q">>
    /\ Len(index_calls) = 1

\* The rephraser returned a text of another canonical form and two
\* retrievals were dispatched.
C18_WitnessTwoForms ==
    /\ ExpansionRan
    /\ query_rephrases = << <<"k">> >>
    /\ Len(index_calls) = 2

\* Both post-processing tasks were submitted
BothTasks ==
    /\ rerank_task \notin {"none", "queued"}
    /\ filter_task \notin {"none", "queued"}

\* The mask the judge's answer gives over `chunks`, the filter having been
\* handed the chunks that were submitted
ExpectedMask(chunks) ==
    IF judge_call[1].answer.raised
    THEN [i \in 1..Len(chunks) |-> TRUE]
    ELSE [i \in 1..Len(chunks) |->
            unique_id(chunks[i]) \in
               Range(filter_chunks(query,
                                   Take(dispatched_chunks,
                                        query.max_llm_filter_chunks),
                                   judge_call[1].answer.selection))]

C21_EmptyRetrievalReportsEmptyMetrics ==
    (/\ pc # "start"
     /\ retrieved_chunks = <<>>
     /\ retrieval_metrics_callback) =>
        retrieval_metrics =
           <<[search_type |-> query.search_type, metrics |-> <<>>]>>

\* The first max_llm_filter_chunks chunks in retrieval order
JudgedPrefix == Take(dispatched_chunks, query.max_llm_filter_chunks)

\* Position i of the final mask, which is laid out over the reranked
\* chunks if reranking returned and over the retrieved chunks otherwise, is
\* true only for a chunk of the judged prefix, and no more than
\* max_llm_filter_chunks positions are true.
TrueOnlyInJudgedPrefix ==
    LET chunks == IF ExpectedReranked # <<>> THEN ExpectedReranked
                  ELSE dispatched_chunks
        mask == yields[Len(yields)].value
    IN /\ \A i \in 1..Len(mask) :
             mask[i] => \E j \in 1..Len(JudgedPrefix) :
                           Key(JudgedPrefix[j]) = Key(chunks[i])
       /\ Cardinality({i \in 1..Len(mask) : mask[i]})
             <= query.max_llm_filter_chunks

\* C23 (as stated): in every final mask a position is true only if its
\* chunk was among the first max_llm_filter_chunks retrieved chunks, and
\* the number of true positions never exceeds max_llm_filter_chunks.
C23_AsStated ==
    pc = "done" => TrueOnlyInJudgedPrefix

\* C23 (amended): when the filter task ran and the judge answered, the
\* judge saw the contents of the first max_llm_filter_chunks chunks in
\* retrieval order and nothing else, a position of the final mask is true
\* only if its chunk was among those chunks (a chunk that reranking moved
\* up from beyond that prefix is masked false), and the number of true
\* positions does not exceed max_llm_filter_chunks.
C23_JudgedMaskTrueOnlyInPrefix ==
    (/\ pc = "done"
     /\ judge_call # <<>>
     /\ ~judge_call[1].answer.raised) =>
        /\ judge_call[1].chunk_contents = ChunkContents(JudgedPrefix)
        /\ TrueOnlyInJudgedPrefix

\* The judge saw one of two chunks and selected it; reranking moved the
\* other chunk to the top, where it is masked false.
C23_Witness ==
    /\ pc = "done"
    /\ query.max_llm_filter_chunks = 1
    /\ Len(dispatched_chunks) = 2
    /\ judge_call # <<>>
    /\ judge_call[1].answer = [raised |-> FALSE, selection |-> <<TRUE>>]
    /\ yields = <<ChunksYield(ExpectedReranked), MaskYield(<<FALSE, TRUE>>)>>
    /\ Key(ExpectedReranked[1]) = Key(dispatched_chunks[2])

-----------------------------------------------------------------------------
(* SpecDocSet: the document-set bookkeeping (danswer/db/document_set.py)    *)
(*                                                                         *)
(* The two tables are kept as they are committed: DocumentSet as a         *)
(* function from id to <<>> (no row) or <<row>>, the relationship table    *)
(* DocumentSet__ConnectorCredentialPair as a set of rows.  The calls run   *)
(* one after the other on one session.  Every call but one commits or      *)
(* rolls back before it returns and is one action;                         *)
(* mark_cc_pair__document_set_relationships_to_be_deleted__no_commit       *)
(* leaves its writes in the session (ds_session) for the caller to commit  *)
(* or roll back.  The table definitions (danswer.db.models) are modelled   *)
(* from their declared behaviour: ids come from a sequence and are never   *)
(* used again, a document set's name is unique, a relationship row is      *)
(* identified by its three columns, and a new DocumentSet row is not up    *)
(* to date unless the caller says so.  CC pair ids are taken to exist.     *)

MaxDocSets == 2

DocSetIds == 1..MaxDocSets

DocSetNames == {"a", "b"}

\* The descriptions given when a document set is created, and when it is
\* updated
CreationDescriptions == {"x"}

UpdateDescriptions == {"y"}

CCPairIds == {1, 2}

\* DocumentSet.is_up_to_date of a row inserted without a value for it
IS_UP_TO_DATE_DEFAULT == FALSE

\* The rows of the relationship table that belong to one document set
PairsOf(pairs, id) == {r \in pairs : r.document_set_id = id}

\* A faulty variant: with is_current given, nothing is deleted.
_delete_document_set_cc_pairs__no_commit_all_only(pairs, id, is_current) ==
    IF is_current = None
    THEN {r \in pairs : r.document_set_id # id}
    ELSE pairs

\* delete(...).where(document_set_id == id), and .where(is_current ==
\* is_current) when is_current is not None
_delete_document_set_cc_pairs__no_commit(pairs, id, is_current) ==
    IF is_current = None
    THEN {r \in pairs : r.document_set_id # id}
    ELSE {r \in pairs : ~(r.document_set_id = id /\ r.is_current = is_current[1])}

\* row.is_current = False for every relationship row of the document set
_mark_document_set_cc_pairs_as_outdated__no_commit(pairs, id) ==
    {IF r.document_set_id = id THEN [r EXCEPT !.is_current = FALSE] ELSE r :
        r \in pairs}

\* The rows added for cc_pair_ids, all current
NewCCPairRows(id, cc_pair_ids) ==
    {[document_set_id |-> id, connector_credential_pair_id |-> c,
      is_current |-> TRUE] : c \in cc_pair_ids}

\* get_document_set_by_id: the row or None
get_document_set_by_id(sets, id) == sets[id]

\* The ids of the rows with that name (get_document_set_by_name)
IdsByName(sets, name) ==
    {i \in DOMAIN sets : sets[i] # None /\ sets[i][1].name = name}

\* A faulty variant: a document set that is syncing is updated all the same.
update_document_set_raises_unless_syncing(row, cc_pair_ids) ==
    \/ cc_pair_ids = {}
    \/ row = None

\* update_document_set raises: no CC pairs, no such row, or a sync pending
update_document_set_raises(row, cc_pair_ids) ==
    \/ cc_pair_ids = {}
    \/ row = None
    \/ ~row[1].is_up_to_date

\* mark_document_set_as_to_be_deleted raises: no such row, or a sync pending
mark_document_set_as_to_be_deleted_raises(row) ==
    \/ row = None
    \/ ~row[1].is_up_to_date

\* The log entry of a call: its name, the id it was given (0 if none), if
\* it raised, and the row and relationship rows of that id before the call
DocSetCall(op, id, raised) ==
    [op |-> op, id |-> id, raised |-> raised,
     row_before |-> IF id \in DocSetIds THEN document_set_table[id] ELSE None,
     pairs_before |-> PairsOf(document_set__cc_pair_table, id)]

\* One more accepted request for the document set, counted up to 2
Accepted(id) ==
    [ds_accepted EXCEPT ![id] = IF @ < 2 THEN @ + 1 ELSE @]

InitDocSet ==
    /\ ds_pc = "committed"
    /\ document_set_table = [i \in DocSetIds |-> None]
    /\ document_set__cc_pair_table = {}
    /\ ds_next_id = 1
    /\ ds_session = None
    /\ ds_call = None
    /\ ds_accepted = [i \in DocSetIds |-> 0]
    /\ MergeIdle /\ RerankIdle /\ SearchIdle /\ BoostIdle /\ DispatchIdle

\* insert_document_set: raises without CC pairs, and rolls back and raises
\* when the name is taken; else the row and its current relationship rows
\* are committed together.
InsertDocumentSet ==
    /\ ds_pc = "committed"
    /\ \E name \in DocSetNames, description \in CreationDescriptions,
          cc_pair_ids \in SUBSET CCPairIds :
          IF cc_pair_ids = {} \/ IdsByName(document_set_table, name) # {}
          THEN /\ ds_call' = Some(DocSetCall("insert_document_set", 0, TRUE))
               /\ UNCHANGED <<document_set_table, document_set__cc_pair_table,
                              ds_next_id, ds_accepted>>
          ELSE /\ ds_next_id <= MaxDocSets
               /\ document_set_table' =
                     [document_set_table EXCEPT ![ds_next_id] =
                         Some([name |-> name, description |-> description,
                               is_up_to_date |-> IS_UP_TO_DATE_DEFAULT])]
               /\ document_set__cc_pair_table' =
                     document_set__cc_pair_table
                        \cup NewCCPairRows(ds_next_id, cc_pair_ids)
               /\ ds_next_id' = ds_next_id + 1
               /\ ds_call' = Some(DocSetCall("insert_document_set",
                                             ds_next_id, FALSE))
               /\ ds_accepted' = [ds_accepted EXCEPT ![ds_next_id] = 0]
    /\ UNCHANGED <<ds_pc, ds_session, merge_vars, rerank_vars, search_vars,
                   boost_vars, dispatch_vars>>

\* update_document_set: raises (after a rollback, nothing having been
\* written) or commits the new description, is_up_to_date = False, the
\* existing relationship rows marked outdated and the new rows.
UpdateDocumentSet ==
    /\ ds_pc = "committed"
    /\ \E id \in DocSetIds, description \in UpdateDescriptions,
          cc_pair_ids \in SUBSET CCPairIds :
          LET document_set_row == get_document_set_by_id(document_set_table, id)
          IN
          IF update_document_set_raises(document_set_row, cc_pair_ids)
          THEN /\ ds_call' = Some(DocSetCall("update_document_set", id, TRUE))
               /\ UNCHANGED <<document_set_table, document_set__cc_pair_table,
                              ds_accepted>>
          ELSE /\ document_set_table' =
                     [document_set_table EXCEPT ![id] =
                         Some([document_set_row[1] EXCEPT
                                  !.description = description,
                                  !.is_up_to_date = FALSE])]
               /\ document_set__cc_pair_table' =
                     _mark_document_set_cc_pairs_as_outdated__no_commit(
                        document_set__cc_pair_table, id)
                        \cup NewCCPairRows(id, cc_pair_ids)
               /\ ds_call' = Some(DocSetCall("update_document_set", id, FALSE))
               /\ ds_accepted' = Accepted(id)
    /\ UNCHANGED <<ds_pc, ds_next_id, ds_session, merge_vars, rerank_vars,
                   search_vars, boost_vars, dispatch_vars>>

\* mark_document_set_as_synced: raises for a missing row, else commits
\* is_up_to_date = True and the deletion of the outdated relationship rows.
MarkDocumentSetAsSynced ==
    /\ ds_pc = "committed"
    /\ \E id \in DocSetIds :
          LET document_set_row == get_document_set_by_id(document_set_table, id)
          IN
          IF document_set_row = None
          THEN /\ ds_call' = Some(DocSetCall("mark_document_set_as_synced",
                                             id, TRUE))
               /\ UNCHANGED <<document_set_table, document_set__cc_pair_table,
                              ds_accepted>>
          ELSE /\ document_set_table' =
                     [document_set_table EXCEPT ![id] =
                         Some([document_set_row[1] EXCEPT
                                  !.is_up_to_date = TRUE])]
               /\ document_set__cc_pair_table' =
                     _delete_document_set_cc_pairs__no_commit(
                        document_set__cc_pair_table, id, Some(FALSE))
               /\ ds_call' = Some(DocSetCall("mark_document_set_as_synced",
                                             id, FALSE))
               /\ ds_accepted' = [ds_accepted EXCEPT ![id] = 0]
    /\ UNCHANGED <<ds_pc, ds_next_id, ds_session, merge_vars, rerank_vars,
                   search_vars, boost_vars, dispatch_vars>>

\* delete_document_set(document_set_row): the caller holds a row; its
\* relationship rows and the row are deleted and the deletion committed.
DeleteDocumentSet ==
    /\ ds_pc = "committed"
    /\ \E id \in DocSetIds :
          /\ document_set_table[id] # None
          /\ document_set_table' = [document_set_table EXCEPT ![id] = None]
          /\ document_set__cc_pair_table' =
                _delete_document_set_cc_pairs__no_commit(
                   document_set__cc_pair_table, id, None)
          /\ ds_call' = Some(DocSetCall("delete_document_set", id, FALSE))
          /\ ds_accepted' = [ds_accepted EXCEPT ![id] = 0]
    /\ UNCHANGED <<ds_pc, ds_next_id, ds_session, merge_vars, rerank_vars,
                   search_vars, boost_vars, dispatch_vars>>

\* mark_document_set_as_to_be_deleted: raises (after a rollback, nothing
\* having been written) or commits the deletion of all relationship rows
\* and is_up_to_date = False.
MarkDocumentSetAsToBeDeleted ==
    /\ ds_pc = "committed"
    /\ \E id \in DocSetIds :
          LET document_set_row == get_document_set_by_id(document_set_table, id)
          IN
          IF mark_document_set_as_to_be_deleted_raises(document_set_row)
          THEN /\ ds_call' =
                     Some(DocSetCall("mark_document_set_as_to_be_deleted",
                                     id, TRUE))
               /\ UNCHANGED <<document_set_table, document_set__cc_pair_table,
                              ds_accepted>>
          ELSE /\ document_set_table' =
                     [document_set_table EXCEPT ![id] =
                         Some([document_set_row[1] EXCEPT
                                  !.is_up_to_date = FALSE])]
               /\ document_set__cc_pair_table' =
                     _delete_document_set_cc_pairs__no_commit(
                        document_set__cc_pair_table, id, None)
               /\ ds_call' =
                     Some(DocSetCall("mark_document_set_as_to_be_deleted",
                                     id, FALSE))
               /\ ds_accepted' = Accepted(id)
    /\ UNCHANGED <<ds_pc, ds_next_id, ds_session, merge_vars, rerank_vars,
                   search_vars, boost_vars, dispatch_vars>>

\* get_or_create_document_set_by_name: the row of that name if there is
\* one, else a new row with is_up_to_date=True and no relationship row.
GetOrCreateDocumentSetByName ==
    /\ ds_pc = "committed"
    /\ \E name \in DocSetNames, description \in CreationDescriptions :
          IF IdsByName(document_set_table, name) # {}
          THEN /\ ds_call' =
                     Some(DocSetCall("get_or_create_document_set_by_name",
                                     CHOOSE i \in IdsByName(document_set_table,
                                                            name) : TRUE,
                                     FALSE))
               /\ UNCHANGED <<document_set_table, ds_next_id, ds_accepted>>
          ELSE /\ ds_next_id <= MaxDocSets
               /\ document_set_table' =
                     [document_set_table EXCEPT ![ds_next_id] =
                         Some([name |-> name, description |-> description,
                               is_up_to_date |-> TRUE])]
               /\ ds_next_id' = ds_next_id + 1
               /\ ds_call' =
                     Some(DocSetCall("get_or_create_document_set_by_name",
                                     ds_next_id, FALSE))
               /\ ds_accepted' = [ds_accepted EXCEPT ![ds_next_id] = 0]
    /\ UNCHANGED <<ds_pc, document_set__cc_pair_table, ds_session, merge_vars,
                   rerank_vars, search_vars, boost_vars, dispatch_vars>>

RECURSIVE MarkRelationships(_, _)
\* The loop over the fetched relationship rows, on the session's state:
\* the row is marked not current first; then a document set that is not up
\* to date ends the loop with ValueError, and one that is up to date is
\* marked as not up to date and counted as touched.
MarkRelationships(relationships, session) ==
    IF relationships = <<>> THEN session
    ELSE LET relationship == Head(relationships)
             id == relationship.document_set_id
             marked == (session.pairs \ {relationship})
                          \cup {[relationship EXCEPT !.is_current = FALSE]}
         IN IF ~session.sets[id][1].is_up_to_date
            THEN [session EXCEPT !.pairs = marked, !.raised = TRUE]
            ELSE MarkRelationships(
                    Tail(relationships),
                    [sets |-> [session.sets EXCEPT ![id] =
                                  Some([@[1] EXCEPT !.is_up_to_date = FALSE])],
                     pairs |-> marked,
                     raised |-> FALSE,
                     document_set_ids_touched |->
                        session.document_set_ids_touched \cup {id}])

\* mark_cc_pair__document_set_relationships_to_be_deleted__no_commit: the
\* relationship rows of the CC pair come back in an order the query does
\* not fix; the writes stay in the session.
MarkCCPairRelationshipsToBeDeleted ==
    /\ ds_pc = "committed"
    /\ \E cc_pair_id \in CCPairIds :
       \E relationships \in IterationOrders(
             {r \in document_set__cc_pair_table :
                 r.connector_credential_pair_id = cc_pair_id}) :
          /\ ds_session' =
                Some(MarkRelationships(
                        relationships,
                        [sets |-> document_set_table,
                         pairs |-> document_set__cc_pair_table,
                         raised |-> FALSE,
                         document_set_ids_touched |-> {}]))
          /\ ds_call' =
                Some([DocSetCall(
                         "mark_cc_pair__document_set_relationships_to_be_deleted__no_commit",
                         0, FALSE)
                      EXCEPT !.raised = ds_session'[1].raised])
    /\ ds_pc' = "pending"
    /\ UNCHANGED <<document_set_table, document_set__cc_pair_table,
                   ds_next_id, ds_accepted, merge_vars, rerank_vars,
                   search_vars, boost_vars, dispatch_vars>>

\* The caller commits what the session holds.
CallerCommit ==
    /\ ds_pc = "pending"
    /\ document_set_table' = ds_session[1].sets
    /\ document_set__cc_pair_table' = ds_session[1].pairs
    /\ ds_session' = None
    /\ ds_pc' = "committed"
    /\ UNCHANGED <<ds_next_id, ds_call, ds_accepted, merge_vars, rerank_vars,
                   search_vars, boost_vars, dispatch_vars>>

\* The caller rolls the session back.
CallerRollback ==
    /\ ds_pc = "pending"
    /\ ds_session' = None
    /\ ds_pc' = "committed"
    /\ UNCHANGED <<document_set_table, document_set__cc_pair_table,
                   ds_next_id, ds_call, ds_accepted, merge_vars, rerank_vars,
                   search_vars, boost_vars, dispatch_vars>>

NextDocSet ==
    \/ InsertDocumentSet
    \/ UpdateDocumentSet
    \/ MarkDocumentSetAsSynced
    \/ DeleteDocumentSet
    \/ MarkDocumentSetAsToBeDeleted
    \/ GetOrCreateDocumentSetByName
    \/ MarkCCPairRelationshipsToBeDeleted
    \/ CallerCommit
    \/ CallerRollback

SpecDocSet == InitDocSet /\ [][NextDocSet]_vars

\* The last call was a request to update or to delete a document set that
\* did not exist or was not up to date
RequestOnMissingOrSyncing ==
    /\ ds_call # None
    /\ ds_call[1].op \in {"update_document_set",
                          "mark_document_set_as_to_be_deleted"}
    /\ \/ ds_call[1].row_before = None
       \/ ~ds_call[1].row_before[1].is_up_to_date

\* C24: update_document_set and mark_document_set_as_to_be_deleted, called
\* for a document set that does not exist or that is not up to date, raise
\* and leave the row of that id and its relationship rows as they were;
\* and since the last mark_document_set_as_synced call for a document set
\* (or since the set was created) at most one update or deletion request
\* for it has been accepted.
C24_RejectedWhileSyncPending ==
    /\ (ds_pc = "committed" /\ RequestOnMissingOrSyncing) =>
          /\ ds_call[1].raised
          /\ document_set_table[ds_call[1].id] = ds_call[1].row_before
          /\ PairsOf(document_set__cc_pair_table, ds_call[1].id)
                = ds_call[1].pairs_before
    /\ ds_pc # "idle" => \A id \in DocSetIds : ds_accepted[id] <= 1

\* An update was refused for a document set whose first update is not
\* synced yet: it keeps its outdated and its current relationship rows.
C24_Witness ==
    /\ ds_pc = "committed"
    /\ RequestOnMissingOrSyncing
    /\ ds_call[1].op = "update_document_set"
    /\ ds_call[1].raised
    /\ ds_call[1].row_before # None
    /\ ds_accepted[ds_call[1].id] = 1
    /\ \E r1, r2 \in ds_call[1].pairs_before :
          r1.is_current /\ ~r2.is_current

\* A deletion request was refused for an id that has no row.
C24_WitnessMissing ==
    /\ ds_pc = "committed"
    /\ RequestOnMissingOrSyncing
    /\ ds_call[1].op = "mark_document_set_as_to_be_deleted"
    /\ ds_call[1].row_before = None
    /\ ds_call[1].raised

\* C25: in every committed state a document set that is up to date has no
\* relationship row with is_current false.
C25_UpToDateHasOnlyCurrentPairs ==
    ds_pc # "idle" =>
        \A id \in DocSetIds :
            (/\ document_set_table[id] # None
             /\ document_set_table[id][1].is_up_to_date) =>
                \A r \in PairsOf(document_set__cc_pair_table, id) :
                    r.is_current

\* A sync has just removed the outdated relationship rows of a document
\* set and marked it up to date, its current rows being kept.
C25_Witness ==
    /\ ds_pc = "committed"
    /\ ds_call # None
    /\ ds_call[1].op = "mark_document_set_as_synced"
    /\ \E r \in ds_call[1].pairs_before : ~r.is_current
    /\ document_set_table[ds_call[1].id][1].is_up_to_date
    /\ PairsOf(document_set__cc_pair_table, ds_call[1].id) # {}

\* The caller committed after the CC-pair call had raised on a document
\* set that was syncing, having marked rows of two document sets.
C25_WitnessCommitAfterRaise ==
    /\ ds_pc = "committed"
    /\ ds_call # None
    /\ ds_call[1].op =
          "mark_cc_pair__document_set_relationships_to_be_deleted__no_commit"
    /\ ds_call[1].raised
    /\ \A id \in DocSetIds :
          /\ document_set_table[id] # None
          /\ \E r \in PairsOf(document_set__cc_pair_table, id) : ~r.is_current
          /\ \A r \in PairsOf(document_set__cc_pair_table, id) :
                r.connector_credential_pair_id = 1

=============================================================================
